---- MODULE Spec2Model ----
(***************************************************************************)
(* Model of the HVAC extraction pipeline: the Gemini vision adapter, the   *)
(* per-page accumulation, the record merger, heater synthesis              *)
(* (extractors/llm_extractor.py) and the heater part of the workbook       *)
(* generator (extractors/excel_generator.py).                              *)
(***************************************************************************)
EXTENDS Integers, Sequences, FiniteSets, TLC

(* ---------------------------------------------------------------------- *)
(* Bounds of the model                                                     *)
(* ---------------------------------------------------------------------- *)
\* largest number of pages of the PDF
MaxPages == 2
\* largest number of records the vision model returns over one run
MaxRecs == 2
\* longest response text (in tokens) fed to the adapter on its own
MaxTextLen == 4

(* ---------------------------------------------------------------------- *)
(* JSON / Python values: a kind and the Python str() rendering             *)
(* ---------------------------------------------------------------------- *)
None == [k |-> "null", s |-> "None"]
Str(x) == [k |-> "str", s |-> x]
Num(x) == [k |-> "num", s |-> x]
PyTrue == [k |-> "bool", s |-> "True"]
PyFalse == [k |-> "bool", s |-> "False"]

\* Python truthiness of a JSON scalar (None, False, 0, 0.0 and "" are falsy)
Truthy(v) ==
    CASE v.k = "null" -> FALSE
      [] v.k = "bool" -> v.s = "True"
      [] v.k = "str" -> v.s # ""
      [] v.k = "num" -> v.s \notin {"0", "0.0"}

\* str(v)
PyStr(v) == v.s

\* dict.get(f): None when the key is absent
Get(rec, f) == IF f \in DOMAIN rec THEN rec[f] ELSE None

\* dict.get(f, d)
GetD(rec, f, d) == IF f \in DOMAIN rec THEN rec[f] ELSE d

(* ---------------------------------------------------------------------- *)
(* The dataset: five families, in the order of the all_data literal        *)
(* ---------------------------------------------------------------------- *)
Families == <<"fans", "vavs", "cracs", "heaters", "air_devices">>
FamilySet == {Families[i] : i \in 1..Len(Families)}

EmptyData == [f \in FamilySet |-> <<>>]

\* the fallback fragment of the adapter
EmptyFragment == [f \in FamilySet |-> <<>>]

(* ---------------------------------------------------------------------- *)
(* The vision adapter's response handling (_extract_with_gemini).          *)
(* A response text is a sequence of tokens: the JSON punctuation           *)
(* "{" "}" "[" "]", the digit "1", the blank " ", the letter "a" (prose),  *)
(* and "m", which stands for the member list  "fans": [...], "vavs": ...   *)
(* of an object; what "m" holds is the payload of the response.            *)
(* ---------------------------------------------------------------------- *)
Tokens == {"{", "}", "[", "]", "1", " ", "a", "m"}

RECURSIVE SkipWs(_, _)
\* index of the first non-blank token at or after i
SkipWs(s, i) == IF i <= Len(s) /\ s[i] = " " THEN SkipWs(s, i + 1) ELSE i

RECURSIVE NumEnd(_, _)
\* index after the run of digits that starts at i
NumEnd(s, i) == IF i <= Len(s) /\ s[i] = "1" THEN NumEnd(s, i + 1) ELSE i

ParseFail == [ok |-> FALSE, next |-> 0, kind |-> "none", hasM |-> FALSE]

RECURSIVE ParseValue(_, _)
\* the JSON value starting at token i: number, array or object
ParseValue(s, i) ==
    IF i > Len(s) THEN ParseFail
    ELSE IF s[i] = "1"
      THEN [ok |-> TRUE, next |-> NumEnd(s, i), kind |-> "num", hasM |-> FALSE]
    ELSE IF s[i] = "["
      THEN LET j == SkipWs(s, i + 1) IN
           IF j <= Len(s) /\ s[j] = "]"
             THEN [ok |-> TRUE, next |-> j + 1, kind |-> "list", hasM |-> FALSE]
             ELSE LET v == ParseValue(s, j)
                      e == SkipWs(s, v.next) IN
                  IF v.ok /\ e <= Len(s) /\ s[e] = "]"
                    THEN [ok |-> TRUE, next |-> e + 1, kind |-> "list", hasM |-> FALSE]
                    ELSE ParseFail
    ELSE IF s[i] = "{"
      THEN LET j == SkipWs(s, i + 1) IN
           IF j <= Len(s) /\ s[j] = "}"
             THEN [ok |-> TRUE, next |-> j + 1, kind |-> "dict", hasM |-> FALSE]
           ELSE IF j <= Len(s) /\ s[j] = "m"
             THEN LET e == SkipWs(s, j + 1) IN
                  IF e <= Len(s) /\ s[e] = "}"
                    THEN [ok |-> TRUE, next |-> e + 1, kind |-> "dict", hasM |-> TRUE]
                    ELSE ParseFail
           ELSE ParseFail
    ELSE ParseFail

\* json.loads: one value with blanks around it, else JSONDecodeError (ok = FALSE)
JsonLoads(s) ==
    LET v == ParseValue(s, SkipWs(s, 1)) IN
    IF v.ok /\ SkipWs(s, v.next) = Len(s) + 1 THEN v ELSE ParseFail

RECURSIVE RStripLen(_, _)
\* length of s[1..n] without its trailing blanks
RStripLen(s, n) == IF n >= 1 /\ s[n] = " " THEN RStripLen(s, n - 1) ELSE n

\* str.strip()
Strip(s) == SubSeq(s, SkipWs(s, 1), RStripLen(s, Len(s)))

\* str.find(c), 1-based; 0 when c does not occur (Python's -1)
Find(s, c) ==
    IF \E i \in 1..Len(s) : s[i] = c
      THEN CHOOSE i \in 1..Len(s) : s[i] = c /\ \A j \in 1..(i - 1) : s[j] # c
      ELSE 0

\* str.rfind(c), 1-based; 0 when c does not occur
RFind(s, c) ==
    IF \E i \in 1..Len(s) : s[i] = c
      THEN CHOOSE i \in 1..Len(s) : s[i] = c /\ \A j \in (i + 1)..Len(s) : s[j] # c
      ELSE 0

\* the text handed to json.loads: the span from the first "{" to the last "}"
TrimToBraces(text) ==
    LET response_text == Strip(text)
        start_idx == Find(response_text, "{")
        end_idx == RFind(response_text, "}") IN
    IF start_idx # 0 /\ end_idx # 0
      THEN SubSeq(response_text, start_idx, end_idx)
      ELSE response_text

\* _extract_with_gemini after the model answered text; the result is the
\* parsed JSON value: kind "dict" with the records in val, or a list or a
\* number (val unused); a parse error gives the fallback fragment
ExtractWithGemini(text, payload) ==
    LET r == JsonLoads(TrimToBraces(text)) IN
    IF r.ok
      THEN [kind |-> r.kind,
            val |-> IF r.kind = "dict" /\ r.hasM THEN payload ELSE <<>>]
      ELSE [kind |-> "dict", val |-> EmptyFragment]

(* ---------------------------------------------------------------------- *)
(* Records the vision model can return, each with its family               *)
(* ---------------------------------------------------------------------- *)
VavPool ==
    { [tag |-> Str("V1"), location |-> None, cfm_max |-> Num("750"),
       has_reheat |-> PyTrue, reheat_kw |-> Num("4.0")],
      [tag |-> Str("V1"), location |-> Str("R2"), cfm_max |-> Num("500"),
       has_reheat |-> PyFalse],
      [tag |-> Str("V2"), has_reheat |-> None, reheat_kw |-> Num("4.0")],
      [tag |-> Str("V2"), location |-> Str("R1"), has_reheat |-> PyTrue],
      [tag |-> None, location |-> Str("R1"), has_reheat |-> PyTrue] }

HeaterPool ==
    { [tag |-> Str("V1-H"), location |-> None, voltage |-> Num("480"),
       kw |-> Num("9.0"), associated_vav |-> Str("V1")],
      [tag |-> Str(""), kw |-> Num("2.0")] }

FanPool == { [tag |-> Str("EF-1"), cfm |-> Num("100")] }

CracPool == { [cfm |-> Num("1000")] }

AirDevicePool == { [tag |-> Str("SD-1"), cfm |-> Num("200")] }

Pool ==
    {<<"vavs", r>> : r \in VavPool} \cup {<<"heaters", r>> : r \in HeaterPool}
    \cup {<<"fans", r>> : r \in FanPool} \cup {<<"cracs", r>> : r \in CracPool}
    \cup {<<"air_devices", r>> : r \in AirDevicePool}

\* sequences over S of length at most n
SeqsUpTo(S, n) == UNION {[1..k -> S] : k \in 0..n}

RECURSIVE RecsOf(_, _)
\* the records of family f in a listing ps of <<family, record>> pairs
RecsOf(ps, f) ==
    IF ps = <<>> THEN <<>>
    ELSE IF ps[1][1] = f THEN <<ps[1][2]>> \o RecsOf(Tail(ps), f)
    ELSE RecsOf(Tail(ps), f)

\* the JSON object that lists the records ps under their family keys
MakeFragment(ps) == [f \in FamilySet |-> RecsOf(ps, f)]

\* response texts of a page: the bare object, the object inside prose, an
\* empty object, a refusal in prose, an array, a bare number
PageTexts ==
    { <<"{", "m", "}">>, <<"a", " ", "{", "m", "}", " ", "a">>, <<"{", "}">>,
      <<"a", " ", "a">>, <<"[", "]">>, <<"1">> }

\* a text whose object carries records
HasPayload(text) == \E i \in 1..Len(text) : text[i] = "m"

(* ---------------------------------------------------------------------- *)
(* The merger and heater synthesis, one record at a time                   *)
(* ---------------------------------------------------------------------- *)
\* position in by_tag of the record with this tag, 0 if there is none
TagIndex(by_tag, tag) ==
    IF \E i \in 1..Len(by_tag) : by_tag[i]["tag"] = tag
      THEN CHOOSE i \in 1..Len(by_tag) : by_tag[i]["tag"] = tag
      ELSE 0

\* (variant of WrittenFields: every non-null incoming value is written)
WrittenFields_overwrite(existing, item) ==
    {f \in DOMAIN item : item[f] # None}

\* the fields of item that the merge loop writes into existing
WrittenFields(existing, item) ==
    {f \in DOMAIN item : item[f] # None /\ Get(existing, f) = None}

\* the loop  for field, value in item.items(): ...  over one item
MergeInto(existing, item) ==
    [f \in DOMAIN existing \cup WrittenFields(existing, item) |->
        IF f \in WrittenFields(existing, item) THEN item[f] ELSE existing[f]]

\* (variant of TagMissing: only a null or absent tag is dropped)
TagMissing_noneOnly(tag) == tag = None

\* if not tag: continue
TagMissing(tag) == ~Truthy(tag)

\* (variant of MergeStep: every tagged item is appended, no grouping by tag)
MergeStep_noDedup(by_tag, item) ==
    IF TagMissing(Get(item, "tag")) THEN by_tag ELSE Append(by_tag, item)

\* (variant of MergeStep: a tag seen again moves its record to the end)
MergeStep_moveToEnd(by_tag, item) ==
    LET tag == Get(item, "tag") IN
    IF TagMissing(tag) THEN by_tag
    ELSE IF TagIndex(by_tag, tag) = 0 THEN Append(by_tag, item)
    ELSE Append(SelectSeq(by_tag, LAMBDA r : r["tag"] # tag),
                MergeInto(by_tag[TagIndex(by_tag, tag)], item))

\* one iteration of  for item in data[key]
MergeStep(by_tag, item) ==
    LET tag == Get(item, "tag") IN
    IF TagMissing(tag) THEN by_tag
    ELSE IF TagIndex(by_tag, tag) = 0 THEN Append(by_tag, item)
    ELSE [by_tag EXCEPT ![TagIndex(by_tag, tag)] = MergeInto(@, item)]

\* f"{vav['tag']}-H"
HeaterTag(vav) == Str(PyStr(vav["tag"]) \o "-H")

\* (variant of SynthHeater: cfm taken from the wrong field, other voltage)
SynthHeater_wrongFields(vav) ==
    [tag |-> HeaterTag(vav),
     location |-> GetD(vav, "location", Str("")),
     cfm |-> GetD(vav, "cfm_min", Num("0")),
     voltage |-> Num("240"),
     kw |-> GetD(vav, "reheat_kw", Num("0")),
     associated_vav |-> vav["tag"]]

\* the heater built from a VAV by _generate_heaters_from_vavs
SynthHeater(vav) ==
    [tag |-> HeaterTag(vav),
     location |-> GetD(vav, "location", Str("")),
     cfm |-> GetD(vav, "cfm_max", Num("0")),
     voltage |-> Num("277"),
     kw |-> GetD(vav, "reheat_kw", Num("0")),
     associated_vav |-> vav["tag"]]

\* the test that guards synthesis for one VAV
WantsHeater(vav) == Truthy(Get(vav, "has_reheat")) /\ Truthy(Get(vav, "tag"))

\* {h.get("tag") for h in data.get("heaters", [])}
HeaterTags(heaters) == {Get(heaters[i], "tag") : i \in 1..Len(heaters)}

\* (variant of NeedsSynth: the existing heater tags are not consulted)
NeedsSynth_noCheck(vav, tags) == WantsHeater(vav)

\* a heater is synthesized for vav: reheat flag, a tag, and no heater of that tag yet
NeedsSynth(vav, tags) == WantsHeater(vav) /\ HeaterTag(vav) \notin tags

(* ---------------------------------------------------------------------- *)
(* State                                                                   *)
(* ---------------------------------------------------------------------- *)
VARIABLES
    pc,                    \* where the run is: idle, extracting, merging, deriving, done, generated, failed
    mode,                  \* "full" (extract_from_pdf) or "schedules_only" (extract_schedules_only)
    num_pages,             \* len(doc)
    page_num,              \* pages handled so far = index of the next page
    fragments,             \* what _extract_with_gemini returned, call after call
    all_data,              \* the dataset under construction, family -> list of records
    mkey,                  \* merger: index in Families of the family being merged
    mi,                    \* merger: index of the next item of data[key]
    by_tag,                \* merger: the running records, in order of first sighting
    vi,                    \* synthesis: index of the next VAV
    existing_heater_tags,  \* synthesis: the heater tags seen so far
    heater_sheets,         \* generator: the records handed to create_heater_sheet, in order
    stats,                 \* generator: sheets created per family
    resp_text,             \* adapter on its own: the response text
    parse_result,          \* adapter on its own: what it returned
    error,                 \* the exception that ended the run, "" while there is none
    vision_calls,          \* calls of model.generate_content made so far
    outputs,               \* what the run has produced: "dataset", "json", "populated", "excel"
    populated,             \* populator: sheets of the template filled per family
    api_key,               \* whether a Gemini API key is configured
    pdf_readable,          \* whether fitz.open(pdf_path) succeeds
    page_text,             \* classifier: the text of the page, character by character
    labels,                \* classifier: what _is_schedule_page returned, call after call
    prompt,                \* classifier: the prompt chosen for the page
    vav_block,             \* associator: the block holding a VAV tag
    cfm_blocks,            \* associator: the blocks holding a CFM value, in page order
    vav_data,              \* associator: the VAVData built for the tag
    cfm_arg,               \* inlet size: the argument of _estimate_inlet_size
    inlet_size,            \* inlet size: what it returned
    jobs,                  \* job server: the jobs dictionary, job id -> record
    task,                  \* job server: where process_hvac_task is, per job
    template_path,         \* job server: whether the job came with a template
    exc,                   \* job server: the exception being handled, per job
    status_data,           \* job server: the last answer of GET /status
    doc,                   \* extract_all: the pages of the PDF, each a sequence of spans
    schedule_data,         \* extract_all: what _find_schedule_data returned, tag -> VAVData
    all_vavs,              \* extract_all: the records by tag, in insertion order
    page_index             \* extract_all: the page the second strategy is at

vars == <<pc, mode, num_pages, page_num, fragments, all_data, mkey, mi, by_tag,
          vi, existing_heater_tags, heater_sheets, stats, resp_text, parse_result,
          error, vision_calls, outputs, populated, api_key, pdf_readable,
          page_text, labels, prompt, vav_block, cfm_blocks, vav_data, cfm_arg,
          inlet_size,
          jobs, task, template_path, exc, status_data,
          doc, schedule_data, all_vavs, page_index>>

mergeVars == <<mkey, mi, by_tag>>
deriveVars == <<vi, existing_heater_tags>>
genVars == <<heater_sheets, stats>>
adapterVars == <<resp_text, parse_result>>
runVars == <<error, vision_calls, outputs, populated>>
envVars == <<api_key, pdf_readable>>
classVars == <<page_text, labels, prompt>>
assocVars == <<vav_block, cfm_blocks, vav_data>>
inletVars == <<cfm_arg, inlet_size>>
jobVars == <<jobs, task, template_path, exc, status_data>>
\* the variables of the components that run on their own
extractVars == <<doc, schedule_data, all_vavs, page_index>>
standaloneVars == <<classVars, assocVars, inletVars, jobVars, extractVars>>
\* the variables of the extraction pipeline
pipelineVars == <<pc, mode, num_pages, page_num, fragments, all_data, mergeVars,
                  deriveVars, genVars, adapterVars, runVars, envVars>>

NoVav == [tag |-> "", x |-> 0, y |-> 0]
NoVavData == [tag |-> "", total_cfm |-> 0, min_cfm |-> 0, max_cfm |-> 0,
              inlet_size |-> ""]
NoAnswer == [code |-> 0, job_id |-> 0, body |-> <<>>]

\* the components that run on their own, at rest
\* extract_all at rest
ExtractIdle ==
    /\ doc = <<>> /\ schedule_data = <<>> /\ all_vavs = <<>> /\ page_index = 0

StandaloneIdle ==
    /\ page_text = <<>> /\ labels = <<>> /\ prompt = ""
    /\ vav_block = NoVav /\ cfm_blocks = <<>> /\ vav_data = NoVavData
    /\ cfm_arg = 0 /\ inlet_size = ""
    /\ jobs = <<>> /\ task = <<>> /\ template_path = <<>> /\ exc = <<>>
    /\ status_data = NoAnswer
    /\ ExtractIdle

NoResult == [kind |-> "none", val |-> <<>>]
ZeroStats == [vavs |-> 0, fans |-> 0, cracs |-> 0, heaters |-> 0]
NoError == ""

RECURSIVE SumLen(_, _)
SumLen(data, i) == IF i = 0 THEN 0 ELSE Len(data[Families[i]]) + SumLen(data, i - 1)
\* records collected so far, over all families
TotalRecs(data) == SumLen(data, Len(Families))

Init ==
    /\ pc = "idle"
    /\ mode \in {"full", "schedules_only"}
    /\ num_pages = 0
    /\ page_num = 0
    /\ fragments = <<>>
    /\ all_data = EmptyData
    /\ mkey = 0 /\ mi = 0 /\ by_tag = <<>>
    /\ vi = 0 /\ existing_heater_tags = {}
    /\ heater_sheets = <<>> /\ stats = ZeroStats
    /\ resp_text = <<>> /\ parse_result = NoResult
    /\ error = NoError /\ vision_calls = 0
    /\ outputs = {} /\ populated = ZeroStats
    /\ api_key \in BOOLEAN /\ pdf_readable \in BOOLEAN
    /\ StandaloneIdle

\* (variant of Open: the PDF is not opened before the page loop)
Open_lazy ==
    /\ pc = "idle"
    /\ IF ~api_key
         THEN /\ pc' = "failed" /\ error' = "ValueError"
              /\ UNCHANGED <<num_pages, page_num, all_data>>
         ELSE /\ pc' = "extracting" /\ error' = error
              /\ num_pages' \in 1..MaxPages
              /\ page_num' = 0
              /\ all_data' = EmptyData
    /\ UNCHANGED <<mode, fragments, mergeVars, deriveVars, genVars, adapterVars,
                   vision_calls, outputs, populated, envVars,
                   standaloneVars>>

\* pipeline.extract() up to the page loop: the API key check, the extractor's
\* constructor, then fitz.open(pdf_path); num_pages = len(doc); all_data = {...}
Open ==
    /\ pc = "idle"
    /\ IF ~api_key
         THEN /\ pc' = "failed" /\ error' = "ValueError"
              /\ UNCHANGED <<num_pages, page_num, all_data>>
         ELSE IF ~pdf_readable
         THEN /\ pc' = "failed" /\ error' = "FileDataError"
              /\ UNCHANGED <<num_pages, page_num, all_data>>
         ELSE /\ pc' = "extracting" /\ error' = error
              /\ num_pages' \in 1..MaxPages
              /\ page_num' = 0
              /\ all_data' = EmptyData
    /\ UNCHANGED <<mode, fragments, mergeVars, deriveVars, genVars, adapterVars,
                   vision_calls, outputs, populated, envVars,
                   standaloneVars>>

\* (variant of Accumulate: the page's records are put in front)
Accumulate_prepend(acc, data) ==
    [f \in FamilySet |->
        IF data.kind = "dict" /\ f \in DOMAIN data.val /\ data.val[f] # <<>>
          THEN data.val[f] \o acc[f]
          ELSE acc[f]]

\* for key in all_data: if key in data and data[key]: all_data[key].extend(data[key])
Accumulate(acc, data) ==
    [f \in FamilySet |->
        IF data.kind = "dict" /\ f \in DOMAIN data.val /\ data.val[f] # <<>>
          THEN acc[f] \o data.val[f]
          ELSE acc[f]]

\* model.generate_content raises (timeout, service error) or response.text
\* raises (no text in the response): both are outside the try of
\* _extract_with_gemini, so the exception leaves extract_from_pdf
VisionRaises ==
    /\ vision_calls' = vision_calls + 1
    /\ pc' = "failed" /\ error' = "ServiceError"
    /\ UNCHANGED <<fragments, all_data, page_num>>

\* one vision call and the accumulation of its result; `key in data` raises
\* TypeError when the parsed value is a number
CallVision ==
    \/ VisionRaises
    \/ \E text \in PageTexts, ps \in SeqsUpTo(Pool, MaxRecs - TotalRecs(all_data)) :
        /\ HasPayload(text) \/ ps = <<>>
        /\ vision_calls' = vision_calls + 1
        /\ LET data == ExtractWithGemini(text, MakeFragment(ps)) IN
           /\ fragments' = Append(fragments, data)
           /\ IF data.kind = "num"
                THEN /\ pc' = "failed" /\ error' = "TypeError"
                     /\ UNCHANGED <<all_data, page_num>>
                ELSE /\ pc' = pc /\ error' = error
                     /\ all_data' = Accumulate(all_data, data)
                     /\ page_num' = page_num + 1

\* one iteration of  for page_num in range(num_pages)
ExtractPage ==
    /\ pc = "extracting"
    /\ page_num < num_pages
    /\ \E is_schedule \in BOOLEAN :
          IF mode = "schedules_only" /\ ~is_schedule
            THEN /\ page_num' = page_num + 1
                 /\ UNCHANGED <<pc, fragments, all_data, error, vision_calls>>
            ELSE CallVision
    /\ UNCHANGED <<mode, num_pages, mergeVars, deriveVars, genVars, adapterVars,
                   outputs, populated, envVars,
                   standaloneVars>>

\* (variant of BeginMerge: the merger starts as soon as one page is handled)
BeginMerge_early ==
    /\ pc = "extracting"
    /\ page_num >= 1
    /\ pc' = "merging"
    /\ mkey' = 1 /\ mi' = 1 /\ by_tag' = <<>>
    /\ UNCHANGED <<mode, num_pages, page_num, fragments, all_data, deriveVars,
                   genVars, adapterVars, runVars, envVars,
                   standaloneVars>>

\* the page loop is over: enter _deduplicate_and_merge
BeginMerge ==
    /\ pc = "extracting"
    /\ page_num = num_pages
    /\ pc' = "merging"
    /\ mkey' = 1 /\ mi' = 1 /\ by_tag' = <<>>
    /\ UNCHANGED <<mode, num_pages, page_num, fragments, all_data, deriveVars,
                   genVars, adapterVars, runVars, envVars,
                   standaloneVars>>

\* item has a get method: it is a JSON object, not a string, number, ...
IsDict(item) == "k" \notin DOMAIN item

\* one iteration of  for item in data[key]; item.get("tag") raises
\* AttributeError when the item is not a JSON object
MergeItem ==
    /\ pc = "merging"
    /\ mi <= Len(all_data[Families[mkey]])
    /\ LET item == all_data[Families[mkey]][mi] IN
       IF IsDict(item)
         THEN /\ by_tag' = MergeStep(by_tag, item)
              /\ mi' = mi + 1
              /\ UNCHANGED <<pc, error>>
         ELSE /\ pc' = "failed" /\ error' = "AttributeError"
              /\ UNCHANGED <<by_tag, mi>>
    /\ UNCHANGED <<mode, num_pages, page_num, fragments, all_data, mkey,
                   deriveVars, genVars, adapterVars, vision_calls, outputs,
                   populated, envVars, standaloneVars>>

\* end of one iteration of  for key in data: an empty list is skipped, else
\* data[key] = list(by_tag.values()); after the last key the merger returns
\* and _generate_heaters_from_vavs collects the existing heater tags
MergeFinishKey ==
    /\ pc = "merging"
    /\ mi > Len(all_data[Families[mkey]])
    /\ all_data' = IF all_data[Families[mkey]] = <<>> THEN all_data
                   ELSE [all_data EXCEPT ![Families[mkey]] = by_tag]
    /\ IF mkey < Len(Families)
         THEN /\ mkey' = mkey + 1 /\ mi' = 1 /\ by_tag' = <<>>
              /\ UNCHANGED <<pc, deriveVars>>
         ELSE /\ pc' = "deriving"
              /\ vi' = 1
              /\ existing_heater_tags' = HeaterTags(all_data'["heaters"])
              /\ UNCHANGED mergeVars
    /\ UNCHANGED <<mode, num_pages, page_num, fragments, genVars, adapterVars,
                   runVars, envVars,
                   standaloneVars>>

\* one iteration of  for vav in data.get("vavs", [])
DeriveVav ==
    /\ pc = "deriving"
    /\ vi <= Len(all_data["vavs"])
    /\ LET vav == all_data["vavs"][vi] IN
       IF NeedsSynth(vav, existing_heater_tags)
         THEN /\ all_data' = [all_data EXCEPT !["heaters"] = Append(@, SynthHeater(vav))]
              /\ existing_heater_tags' = existing_heater_tags \cup {HeaterTag(vav)}
         ELSE UNCHANGED <<all_data, existing_heater_tags>>
    /\ vi' = vi + 1
    /\ UNCHANGED <<pc, mode, num_pages, page_num, fragments, mergeVars, genVars,
                   adapterVars, runVars, envVars,
                   standaloneVars>>

\* (variant of Return: only the families that have records are returned)
Return_nonEmptyOnly ==
    /\ pc = "deriving"
    /\ vi > Len(all_data["vavs"])
    /\ pc' = "done"
    /\ outputs' = {"dataset"}
    /\ all_data' = [f \in {g \in FamilySet : all_data[g] # <<>>} |-> all_data[f]]
    /\ UNCHANGED <<mode, num_pages, page_num, fragments, mergeVars,
                   deriveVars, genVars, adapterVars, error, vision_calls,
                   populated, envVars,
                   standaloneVars>>

\* return all_data, and self.extracted_data = ... in pipeline.extract()
Return ==
    /\ pc = "deriving"
    /\ vi > Len(all_data["vavs"])
    /\ pc' = "done"
    /\ outputs' = {"dataset"}
    /\ UNCHANGED <<mode, num_pages, page_num, fragments, all_data, mergeVars,
                   deriveVars, genVars, adapterVars, error, vision_calls,
                   populated, envVars,
                   standaloneVars>>

(* ---------------------------------------------------------------------- *)
(* The workbook generator (generate_from_data), heater part and counts     *)
(* ---------------------------------------------------------------------- *)
num_heater_templates == 10

\* the strings the generator does not count as a reheat load
NoReheatStrings == {"0", "0.0", "", "null", "None"}

\* str(i) for the indices of the template loop
IndexStr == <<"1", "2", "3", "4", "5", "6", "7", "8", "9">>

RECURSIVE ExplicitHeaterSheets(_, _, _)
\* the loop over data["heaters"]: one sheet per first sighting of a non-empty tag
ExplicitHeaterSheets(heaters, i, sheets) ==
    IF i > Len(heaters) THEN sheets
    ELSE LET tag == GetD(heaters[i], "tag", Str("")) IN
         IF Truthy(tag) /\ tag \notin HeaterTags(sheets)
           THEN ExplicitHeaterSheets(heaters, i + 1, Append(sheets, heaters[i]))
           ELSE ExplicitHeaterSheets(heaters, i + 1, sheets)

\* has_reheat as the generator computes it: the flag, or a non-zero kW
GenHasReheat(vav) ==
    \/ Truthy(Get(vav, "has_reheat"))
    \/ /\ Truthy(Get(vav, "reheat_kw"))
       /\ PyStr(Get(vav, "reheat_kw")) \notin NoReheatStrings

\* heater_data built from a VAV by the generator
GenHeater(vav) ==
    [tag |-> HeaterTag(vav),
     location |-> GetD(vav, "location", Str("")),
     cfm |-> GetD(vav, "cfm_max", Num("0")),
     voltage |-> Num("277"),
     kw |-> Get(vav, "reheat_kw"),
     associated_vav |-> vav["tag"]]

RECURSIVE VavHeaterSheets(_, _, _)
\* the loop over data["vavs"] that adds heater sheets for VAVs with reheat
VavHeaterSheets(vavs, i, sheets) ==
    IF i > Len(vavs) THEN sheets
    ELSE LET vav == vavs[i] IN
         IF /\ Truthy(GetD(vav, "tag", Str("")))
            /\ GenHasReheat(vav)
            /\ HeaterTag(vav) \notin HeaterTags(sheets)
           THEN VavHeaterSheets(vavs, i + 1, Append(sheets, GenHeater(vav)))
           ELSE VavHeaterSheets(vavs, i + 1, sheets)

\* the blank template record number i (0-based)
BlankHeater(i) ==
    [tag |-> Str("Electric Duct Heater"
                 \o (IF i = 0 THEN "" ELSE " (" \o IndexStr[i] \o ")")),
     location |-> Str(""), cfm |-> Str(""), voltage |-> Str(""),
     kw |-> Str(""), associated_vav |-> Str("")]

\* (variant of WithFallback: the blank sheets are added in every case)
WithFallback_always(sheets) ==
    sheets \o [i \in 1..num_heater_templates |-> BlankHeater(i - 1)]

\* the fallback: blank sheets when stats["heaters"] == 0
WithFallback(sheets) ==
    IF Len(sheets) = 0
      THEN [i \in 1..num_heater_templates |-> BlankHeater(i - 1)]
      ELSE sheets

\* all records handed to create_heater_sheet by generate_from_data
AllHeaterSheets(data) ==
    WithFallback(
        VavHeaterSheets(data["vavs"], 1,
            ExplicitHeaterSheets(data["heaters"], 1, <<>>)))

\* sheets created by one of the seen-set loops: distinct non-empty tags
SheetCount(list) ==
    Cardinality({t \in {GetD(list[i], "tag", Str("")) : i \in 1..Len(list)} :
                    Truthy(t)})

\* (variant of GenerateExcel: the heater records of the sheets are written
\* back into the dataset)
GenerateExcel_writesBack ==
    /\ pc = "done"
    /\ pc' = "generated"
    /\ heater_sheets' = AllHeaterSheets(all_data)
    /\ stats' = [vavs |-> SheetCount(all_data["vavs"]),
                 fans |-> SheetCount(all_data["fans"]),
                 cracs |-> SheetCount(all_data["cracs"]),
                 heaters |-> Len(AllHeaterSheets(all_data))]
    /\ outputs' = outputs \cup {"excel"}
    /\ all_data' = [all_data EXCEPT !["heaters"] = AllHeaterSheets(all_data)]
    /\ UNCHANGED <<mode, num_pages, page_num, fragments, mergeVars,
                   deriveVars, adapterVars, error, vision_calls, populated,
                   envVars,
                   standaloneVars>>

\* generate_excel -> generate_from_data on the extracted dataset
GenerateExcel ==
    /\ pc = "done"
    /\ pc' = "generated"
    /\ heater_sheets' = AllHeaterSheets(all_data)
    /\ stats' = [vavs |-> SheetCount(all_data["vavs"]),
                 fans |-> SheetCount(all_data["fans"]),
                 cracs |-> SheetCount(all_data["cracs"]),
                 heaters |-> Len(AllHeaterSheets(all_data))]
    /\ outputs' = outputs \cup {"excel"}
    /\ UNCHANGED <<mode, num_pages, page_num, fragments, all_data, mergeVars,
                   deriveVars, adapterVars, error, vision_calls, populated,
                   envVars,
                   standaloneVars>>

Next == Open \/ ExtractPage \/ BeginMerge \/ MergeItem \/ MergeFinishKey
        \/ DeriveVav \/ Return \/ GenerateExcel

Spec == Init /\ [][Next]_vars

(* ---------------------------------------------------------------------- *)
(* The whole run of run() and of process_hvac_task: the JSON file and the  *)
(* populated template between the extraction and the workbook              *)
(* ---------------------------------------------------------------------- *)
\* json.dump(extracted_data, f) of process_hvac_task, save_json() of run():
\* the step after extract()
SaveJson ==
    /\ pc = "done"
    /\ outputs = {"dataset"}
    /\ outputs' = outputs \cup {"json"}
    /\ UNCHANGED <<pc, mode, num_pages, page_num, fragments, all_data, mergeVars,
                   deriveVars, genVars, adapterVars, error, vision_calls,
                   populated, envVars,
                   standaloneVars>>

(* ---------------------------------------------------------------------- *)
(* The template populator (populate_all)                                   *)
(* ---------------------------------------------------------------------- *)
\* sheet names of the templates a job can come with
TemplatePool ==
    { <<"V1", "EF-1", "Electric Duct Heater">>,
      <<"Summary", "V2", "Electric Duct Heater", "Electric Duct Heater (1)">> }

\* "Electric Duct Heater" in s, for the sheet names of TemplatePool
IsHeaterSheet(s) == s \in {"Electric Duct Heater", "Electric Duct Heater (1)"}

\* _find_sheet_for_tag finds a sheet; for the upper-case tags of the pools and
\* the sheet names of TemplatePool its three rules (same name, same name in
\* upper case, prefix and containment) all come down to the same name
SheetFound(tag, sheet_names) ==
    \E i \in 1..Len(sheet_names) : sheet_names[i] = PyStr(tag)

RECURSIVE CountPopulated(_, _, _)
\* the loops of populate_all over vavs and fans: one per record with a sheet
CountPopulated(list, i, sheet_names) ==
    IF i > Len(list) THEN 0
    ELSE (IF SheetFound(GetD(list[i], "tag", Str("")), sheet_names) THEN 1 ELSE 0)
         + CountPopulated(list, i + 1, sheet_names)

\* the pairing loop of populate_all: two heaters per heater sheet
HeatersPopulated(heaters, sheet_names) ==
    LET blocks == 2 * Len(SelectSeq(sheet_names, IsHeaterSheet)) IN
    IF Len(heaters) < blocks THEN Len(heaters) ELSE blocks

\* stats returned by populate_all(extracted_data)
PopulateAll(data, sheet_names) ==
    [vavs |-> CountPopulated(data["vavs"], 1, sheet_names),
     fans |-> CountPopulated(data["fans"], 1, sheet_names),
     heaters |-> HeatersPopulated(data["heaters"], sheet_names),
     cracs |-> 0]

\* step 3 of process_hvac_task, taken when a template came with the job;
\* the task runs the pipeline with full_extraction left at its default
PopulateTemplate ==
    /\ pc = "done"
    /\ mode = "full"
    /\ "json" \in outputs /\ "populated" \notin outputs
    /\ \E sheet_names \in TemplatePool :
          populated' = PopulateAll(all_data, sheet_names)
    /\ outputs' = outputs \cup {"populated"}
    /\ UNCHANGED <<pc, mode, num_pages, page_num, fragments, all_data, mergeVars,
                   deriveVars, genVars, adapterVars, error, vision_calls,
                   envVars,
                   standaloneVars>>

NextDelivery == Next \/ SaveJson \/ PopulateTemplate

SpecDelivery == Init /\ [][NextDelivery]_vars

(* ---------------------------------------------------------------------- *)
(* The merger and the derivation on their own: the page loop has handled   *)
(* two pages whose objects list up to MaxMergeRecs items                   *)
(* ---------------------------------------------------------------------- *)
MaxMergeRecs == 3

\* what the "vavs" and "heaters" arrays of a page's object may hold: the
\* records of the pools, and a bare string as in {"vavs": ["V1"]}
MergePool ==
    {<<"vavs", r>> : r \in VavPool} \cup {<<"heaters", r>> : r \in HeaterPool}
    \cup {<<"vavs", Str("V1")>>}

\* extract_from_pdf at the end of its page loop
InitMerge ==
    /\ pc = "extracting"
    /\ mode = "full"
    /\ \E ps \in SeqsUpTo(MergePool, MaxMergeRecs) : \E k \in 0..Len(ps) :
          /\ fragments = << ExtractWithGemini(<<"{", "m", "}">>,
                                              MakeFragment(SubSeq(ps, 1, k))),
                            ExtractWithGemini(<<"{", "m", "}">>,
                                              MakeFragment(SubSeq(ps, k + 1, Len(ps)))) >>
          /\ all_data = Accumulate(Accumulate(EmptyData, fragments[1]), fragments[2])
    /\ num_pages = Len(fragments) /\ page_num = num_pages
    /\ vision_calls = num_pages
    /\ mkey = 0 /\ mi = 0 /\ by_tag = <<>>
    /\ vi = 0 /\ existing_heater_tags = {}
    /\ heater_sheets = <<>> /\ stats = ZeroStats
    /\ resp_text = <<>> /\ parse_result = NoResult
    /\ error = NoError
    /\ outputs = {} /\ populated = ZeroStats
    /\ api_key = TRUE /\ pdf_readable = TRUE
    /\ StandaloneIdle

NextMerge == BeginMerge \/ MergeItem \/ MergeFinishKey \/ DeriveVav \/ Return

SpecMerge == InitMerge /\ [][NextMerge]_vars

(* ---------------------------------------------------------------------- *)
(* The adapter on its own: any response text of bounded length             *)
(* ---------------------------------------------------------------------- *)
\* what the object of a response may hold
SamplePayloads ==
    { MakeFragment(<<>>),
      MakeFragment(<<<<"fans", [tag |-> Str("EF-1"), cfm |-> Num("100")]>>>>) }

InitAdapter ==
    /\ pc = "adapter"
    /\ resp_text \in SeqsUpTo(Tokens, MaxTextLen)
    /\ parse_result = NoResult
    /\ mode = "full"
    /\ num_pages = 0 /\ page_num = 0
    /\ fragments = <<>>
    /\ all_data = EmptyData
    /\ mkey = 0 /\ mi = 0 /\ by_tag = <<>>
    /\ vi = 0 /\ existing_heater_tags = {}
    /\ heater_sheets = <<>> /\ stats = ZeroStats
    /\ error = NoError /\ vision_calls = 0
    /\ outputs = {} /\ populated = ZeroStats
    /\ api_key = TRUE /\ pdf_readable = TRUE
    /\ StandaloneIdle

\* data = self._extract_with_gemini(image_bytes, prompt), the model having
\* answered resp_text
AdapterCall ==
    /\ pc = "adapter"
    /\ pc' = "adapter_done"
    /\ \E payload \in SamplePayloads :
          parse_result' = ExtractWithGemini(resp_text, payload)
    /\ UNCHANGED <<mode, num_pages, page_num, fragments, all_data, mergeVars,
                   deriveVars, genVars, resp_text, runVars, envVars,
                   standaloneVars>>

NextAdapter == AdapterCall

SpecAdapter == InitAdapter /\ [][NextAdapter]_vars

(* ---------------------------------------------------------------------- *)
(* The page classifier (_is_schedule_page) and the choice of the prompt     *)
(* ---------------------------------------------------------------------- *)
\* pieces a page text is made of
MaxPieces == 3
\* classifications of one page text (runs over the same PDF)
MaxRuns == 2

Lower == <<"a", "c", "d", "e", "f", "h", "i", "l", "m", "o", "r", "u", "w", "x">>
Upper == <<"A", "C", "D", "E", "F", "H", "I", "L", "M", "O", "R", "U", "W", "X">>

\* str.upper() on one character
UpperChar(c) ==
    IF \E i \in 1..Len(Lower) : Lower[i] = c
      THEN Upper[CHOOSE i \in 1..Len(Lower) : Lower[i] = c]
      ELSE c

\* str.upper()
ToUpper(text) == [i \in 1..Len(text) |-> UpperChar(text[i])]

\* sub in text
Contains(text, sub) ==
    \E i \in 1..(Len(text) - Len(sub) + 1) : SubSeq(text, i, i + Len(sub) - 1) = sub

schedule_indicators ==
    << <<"S", "C", "H", "E", "D", "U", "L", "E">>,
       <<"D", "E", "S", "I", "G", "N", "A", "T", "I", "O", "N">>,
       <<"C", "F", "M">>,
       <<"A", "I", "R", "F", "L", "O", "W">> >>

\* (variant of IsSchedulePage: the text is searched as it is)
IsSchedulePage_caseSensitive(text) ==
    \E k \in 1..Len(schedule_indicators) : Contains(text, schedule_indicators[k])

\* _is_schedule_page: any(ind in text for ind in schedule_indicators) on the
\* upper-cased text
IsSchedulePage(text) ==
    \E k \in 1..Len(schedule_indicators) :
        Contains(ToUpper(text), schedule_indicators[k])

\* what page texts are put together from
TextPieces ==
    { <<"c", "f", "m">>, <<"C", "F">>, <<"M">>, <<"S", "c", "h", "e", "d">>,
      <<"u", "l", "e">>, <<"D", "E", "S", "I", "G", "N", "A", "T", "I", "O", "N">>,
      <<"a", "i", "r">>, <<"f", "l", "o", "w">>, <<" ">>, <<"x">> }

RECURSIVE Concat(_)
Concat(ps) == IF ps = <<>> THEN <<>> ELSE Head(ps) \o Concat(Tail(ps))

InitClassifier ==
    /\ pc = "classifier"
    /\ mode \in {"full", "schedules_only"}
    /\ page_text \in {Concat(ps) : ps \in SeqsUpTo(TextPieces, MaxPieces)}
    /\ labels = <<>> /\ prompt = ""
    /\ num_pages = 0 /\ page_num = 0
    /\ fragments = <<>>
    /\ all_data = EmptyData
    /\ mkey = 0 /\ mi = 0 /\ by_tag = <<>>
    /\ vi = 0 /\ existing_heater_tags = {}
    /\ heater_sheets = <<>> /\ stats = ZeroStats
    /\ resp_text = <<>> /\ parse_result = NoResult
    /\ error = NoError /\ vision_calls = 0
    /\ outputs = {} /\ populated = ZeroStats
    /\ api_key = TRUE /\ pdf_readable = TRUE
    /\ vav_block = NoVav /\ cfm_blocks = <<>> /\ vav_data = NoVavData
    /\ cfm_arg = 0 /\ inlet_size = ""
    /\ jobs = <<>> /\ task = <<>> /\ template_path = <<>> /\ exc = <<>>
    /\ status_data = NoAnswer
    /\ ExtractIdle

\* the page loop's test on a page of text page_text: extract_from_pdf sends
\* the schedule prompt or the floor plan prompt, extract_schedules_only the
\* schedule prompt or nothing
ClassifyPage ==
    /\ pc = "classifier"
    /\ Len(labels) < MaxRuns
    /\ LET is_schedule == IsSchedulePage(page_text) IN
       /\ labels' = Append(labels, is_schedule)
       /\ prompt' = IF is_schedule THEN "SCHEDULE_PROMPT"
                    ELSE IF mode = "full" THEN "FLOOR_PLAN_PROMPT"
                    ELSE "none"
    /\ UNCHANGED <<pipelineVars, page_text, assocVars, inletVars, extractVars, jobVars>>

NextClassifier == ClassifyPage

SpecClassifier == InitClassifier /\ [][NextClassifier]_vars

(* ---------------------------------------------------------------------- *)
(* ImprovedVAVExtractor: inlet size and the geometric associator           *)
(* ---------------------------------------------------------------------- *)
\* largest CFM handed to _estimate_inlet_size
MaxCfm == 720
\* how far below zero the CFM handed to it goes
MaxNegCfm == 5
\* CFM blocks on the page
MaxCfmBlocks == 2

\* (variant of EstimateInletSize: the breakpoints belong to the next size)
EstimateInletSize_strict(c) ==
    IF c <= 0 THEN ""
    ELSE IF c < 200 THEN "6\""
    ELSE IF c < 400 THEN "8\""
    ELSE IF c < 700 THEN "10\""
    ELSE "12\""

\* _estimate_inlet_size
EstimateInletSize(c) ==
    IF c <= 0 THEN ""
    ELSE IF c <= 200 THEN "6\""
    ELSE IF c <= 400 THEN "8\""
    ELSE IF c <= 700 THEN "10\""
    ELSE "12\""

InitInlet ==
    /\ pc = "inlet"
    /\ cfm_arg \in (0 - MaxNegCfm)..MaxCfm
    /\ inlet_size = ""
    /\ mode = "full"
    /\ num_pages = 0 /\ page_num = 0
    /\ fragments = <<>>
    /\ all_data = EmptyData
    /\ mkey = 0 /\ mi = 0 /\ by_tag = <<>>
    /\ vi = 0 /\ existing_heater_tags = {}
    /\ heater_sheets = <<>> /\ stats = ZeroStats
    /\ resp_text = <<>> /\ parse_result = NoResult
    /\ error = NoError /\ vision_calls = 0
    /\ outputs = {} /\ populated = ZeroStats
    /\ api_key = TRUE /\ pdf_readable = TRUE
    /\ page_text = <<>> /\ labels = <<>> /\ prompt = ""
    /\ vav_block = NoVav /\ cfm_blocks = <<>> /\ vav_data = NoVavData
    /\ jobs = <<>> /\ task = <<>> /\ template_path = <<>> /\ exc = <<>>
    /\ status_data = NoAnswer
    /\ ExtractIdle

\* self._estimate_inlet_size(cfm)
EstimateCall ==
    /\ pc = "inlet"
    /\ pc' = "inlet_done"
    /\ inlet_size' = EstimateInletSize(cfm_arg)
    /\ UNCHANGED <<mode, num_pages, page_num, fragments, all_data, mergeVars,
                   deriveVars, genVars, adapterVars, runVars, envVars, classVars,
                   assocVars, cfm_arg, jobVars, extractVars>>

NextInlet == EstimateCall

SpecInlet == InitInlet /\ [][NextInlet]_vars

\* the 300 of `dist < 300`
\* the literal 0.2 as a double: the 53 bits of its significand
\* 0x1999999999999A, lowest first; the value is the significand times
\* 2^-(Len + 2)
PointTwoBits ==
    << 0, 1, 0, 1, 1, 0, 0, 1, 1, 0, 0, 1, 1, 0, 0, 1,
       1, 0, 0, 1, 1, 0, 0, 1, 1, 0, 0, 1, 1, 0, 0, 1,
       1, 0, 0, 1, 1, 0, 0, 1, 1, 0, 0, 1, 1, 0, 0, 1,
       1, 0, 0, 1, 1 >>

RECURSIVE MulBits(_, _, _, _)
\* the bits, lowest first, of the exact product of the integer c and the
\* number whose bits are mbits
MulBits(mbits, c, i, acc) ==
    IF i > Len(mbits) /\ acc = 0 THEN <<>>
    ELSE LET v == acc + (IF i <= Len(mbits) THEN mbits[i] * c ELSE 0) IN
         <<v % 2>> \o MulBits(mbits, c, i + 1, v \div 2)

RECURSIVE Inc(_)
\* bits + 1
Inc(bits) ==
    IF bits = <<>> THEN <<1>>
    ELSE IF bits[1] = 0 THEN <<1>> \o Tail(bits)
    ELSE <<0>> \o Inc(Tail(bits))

RECURSIVE BitsToInt(_)
BitsToInt(bits) == IF bits = <<>> THEN 0 ELSE bits[1] + 2 * BitsToInt(Tail(bits))

\* the double c * 0.2: the exact product rounded to 53 significant bits,
\* ties to even; the result is sig times 2^(shift - Len(PointTwoBits) - 2)
TimesPointTwo(c) ==
    LET bits == MulBits(PointTwoBits, c, 1, 0)
        n == IF \E i \in 1..Len(bits) : bits[i] = 1
               THEN CHOOSE i \in 1..Len(bits) :
                       bits[i] = 1 /\ \A j \in (i + 1)..Len(bits) : bits[j] = 0
               ELSE 0
        shift == n - Len(PointTwoBits) IN
    IF shift <= 0 THEN [sig |-> SubSeq(bits, 1, n), shift |-> 0]
    ELSE LET q == SubSeq(bits, shift + 1, n)
             guard == bits[shift] = 1
             sticky == \E i \in 1..(shift - 1) : bits[i] = 1
             up == guard /\ (sticky \/ q[1] = 1) IN
         [sig |-> IF up THEN Inc(q) ELSE q, shift |-> shift]

\* (variant of MinCfmEstimate: the product is rounded to the nearest integer)
MinCfmEstimate_rounded(c) == (2 * c + 5) \div 10

\* int(c * 0.2): the double product truncated to an integer
MinCfmEstimate(c) ==
    LET d == TimesPointTwo(c)
        point == Len(PointTwoBits) + 2 - d.shift IN
    BitsToInt(SubSeq(d.sig, point + 1, Len(d.sig)))

association_radius == 300

\* the square of math.sqrt((vav.x - cfm.x)**2 + (vav.y - cfm.y)**2); the
\* coordinates of the model are integers, for which comparing the root with
\* 300 and the square with 300 * 300 is the same
Dist2(a, b) == (a.x - b.x) * (a.x - b.x) + (a.y - b.y) * (a.y - b.y)

\* if dist < 300
InReach(tagb, cfmb) ==
    Dist2(tagb, cfmb) < association_radius * association_radius

\* distances: (value, dist) of the CFM blocks in reach, in page order
Distances(tagb, blocks) ==
    LET all == [i \in 1..Len(blocks) |->
                   [value |-> blocks[i].value, dist2 |-> Dist2(tagb, blocks[i]),
                    near |-> InReach(tagb, blocks[i])]] IN
    SelectSeq(all, LAMBDA c : c.near)

RECURSIVE MinByDist(_, _, _)
\* min(distances, key=lambda x: x[1]): the first of the nearest
MinByDist(ds, i, best) ==
    IF i > Len(ds) THEN best
    ELSE MinByDist(ds, i + 1, IF ds[i].dist2 < best.dist2 THEN ds[i] ELSE best)

\* the VAVData built for one tag block in the second pass
BuildVavData(tagb, blocks) ==
    LET distances == Distances(tagb, blocks)
        total == IF distances = <<>> THEN 0
                 ELSE MinByDist(distances, 2, distances[1]).value IN
    [tag |-> tagb.tag,
     total_cfm |-> total,
     max_cfm |-> total,
     min_cfm |-> MinCfmEstimate(total),
     inlet_size |-> EstimateInletSize(total)]

\* blocks holding a VAV tag
VavBlocks ==
    { [tag |-> "VAV-1", x |-> 0, y |-> 0], [tag |-> "VAV-2", x |-> 100, y |-> 0] }

\* top-left corners of the blocks holding a number
CfmPoints ==
    { <<0, 0>>, <<200, 0>>, <<299, 0>>, <<300, 0>>, <<180, 240>>, <<301, 0>>,
      <<400, 0>> }

\* blocks the first pass collects in cfm_blocks
CfmBlockPool ==
    { [value |-> v, x |-> p[1], y |-> p[2]] : v \in {150, 450}, p \in CfmPoints }

InitAssociator ==
    /\ pc = "associator"
    /\ vav_block \in VavBlocks
    /\ cfm_blocks \in SeqsUpTo(CfmBlockPool, MaxCfmBlocks)
    /\ vav_data = NoVavData
    /\ mode = "full"
    /\ num_pages = 0 /\ page_num = 0
    /\ fragments = <<>>
    /\ all_data = EmptyData
    /\ mkey = 0 /\ mi = 0 /\ by_tag = <<>>
    /\ vi = 0 /\ existing_heater_tags = {}
    /\ heater_sheets = <<>> /\ stats = ZeroStats
    /\ resp_text = <<>> /\ parse_result = NoResult
    /\ error = NoError /\ vision_calls = 0
    /\ outputs = {} /\ populated = ZeroStats
    /\ api_key = TRUE /\ pdf_readable = TRUE
    /\ page_text = <<>> /\ labels = <<>> /\ prompt = ""
    /\ cfm_arg = 0 /\ inlet_size = ""
    /\ jobs = <<>> /\ task = <<>> /\ template_path = <<>> /\ exc = <<>>
    /\ status_data = NoAnswer
    /\ ExtractIdle

\* the second pass of _find_vav_with_context for the tag block
FindVavWithContext ==
    /\ pc = "associator"
    /\ pc' = "associated"
    /\ vav_data' = BuildVavData(vav_block, cfm_blocks)
    /\ UNCHANGED <<mode, num_pages, page_num, fragments, all_data, mergeVars,
                   deriveVars, genVars, adapterVars, runVars, envVars, classVars,
                   vav_block, cfm_blocks, inletVars, extractVars, jobVars>>

NextAssociator == FindVavWithContext

SpecAssociator == InitAssociator /\ [][NextAssociator]_vars

(* ---------------------------------------------------------------------- *)
(* The record built from a CFM value that was found, by either strategy    *)
(* ---------------------------------------------------------------------- *)
MaxCfmValue == 9999

\* the VAVData _find_schedule_data builds for a tag whose window gave c
ScheduleRecord(tag, c) ==
    [tag |-> tag,
     total_cfm |-> c,
     min_cfm |-> MinCfmEstimate(c),
     max_cfm |-> c,
     inlet_size |-> ""]

\* a CFM value has been parsed for a tag
InitRecord ==
    /\ pc = "cfm_found"
    /\ cfm_arg \in 0..MaxCfmValue
    /\ vav_data = NoVavData
    /\ vav_block = NoVav /\ cfm_blocks = <<>> /\ inlet_size = ""
    /\ mode = "full"
    /\ num_pages = 0 /\ page_num = 0
    /\ fragments = <<>>
    /\ all_data = EmptyData
    /\ mkey = 0 /\ mi = 0 /\ by_tag = <<>>
    /\ vi = 0 /\ existing_heater_tags = {}
    /\ heater_sheets = <<>> /\ stats = ZeroStats
    /\ resp_text = <<>> /\ parse_result = NoResult
    /\ error = NoError /\ vision_calls = 0
    /\ outputs = {} /\ populated = ZeroStats
    /\ api_key = TRUE /\ pdf_readable = TRUE
    /\ page_text = <<>> /\ labels = <<>> /\ prompt = ""
    /\ jobs = <<>> /\ task = <<>> /\ template_path = <<>> /\ exc = <<>>
    /\ status_data = NoAnswer
    /\ ExtractIdle

\* the second pass of _find_vav_with_context with the value as the nearest
\* candidate of the tag
RecordByProximity ==
    /\ pc = "cfm_found"
    /\ pc' = "cfm_associated"
    /\ vav_data' = BuildVavData([tag |-> "VAV-1", x |-> 0, y |-> 0],
                                <<[value |-> cfm_arg, x |-> 0, y |-> 0]>>)
    /\ UNCHANGED <<mode, num_pages, page_num, fragments, all_data, mergeVars,
                   deriveVars, genVars, adapterVars, runVars, envVars, classVars,
                   vav_block, cfm_blocks, inletVars, jobVars, extractVars>>

\* the record of _find_schedule_data with the value as the window's match
RecordBySchedule ==
    /\ pc = "cfm_found"
    /\ pc' = "cfm_scheduled"
    /\ vav_data' = ScheduleRecord("VAV-1", cfm_arg)
    /\ UNCHANGED <<mode, num_pages, page_num, fragments, all_data, mergeVars,
                   deriveVars, genVars, adapterVars, runVars, envVars, classVars,
                   vav_block, cfm_blocks, inletVars, jobVars, extractVars>>

NextRecord == RecordByProximity \/ RecordBySchedule

SpecRecord == InitRecord /\ [][NextRecord]_vars

(* ---------------------------------------------------------------------- *)
(* ImprovedVAVExtractor.extract_all on a document of two pages; a page is  *)
(* a sequence of lines of one span each, a text is a sequence of characters *)
(* ---------------------------------------------------------------------- *)
MaxDocSpans == 3

DigitValue ==
    [c \in {"0", "1", "2", "3", "4", "5", "6", "7", "8", "9"} |->
        CASE c = "0" -> 0 [] c = "1" -> 1 [] c = "2" -> 2 [] c = "3" -> 3
          [] c = "4" -> 4 [] c = "5" -> 5 [] c = "6" -> 6 [] c = "7" -> 7
          [] c = "8" -> 8 [] c = "9" -> 9]

RECURSIVE DigitsEnd(_, _)
\* where the run of digits that starts at p ends (p itself if there is none)
DigitsEnd(t, p) ==
    IF p <= Len(t) /\ t[p] \in DOMAIN DigitValue THEN DigitsEnd(t, p + 1) ELSE p

RECURSIVE IntOfDigits(_)
\* int(ds) for a string of decimal digits
IntOfDigits(ds) ==
    IF ds = <<>> THEN 0
    ELSE 10 * IntOfDigits(SubSeq(ds, 1, Len(ds) - 1)) + DigitValue[ds[Len(ds)]]

\* VAV_PATTERN = VAVB?\d*-\d+|VAV-\d+ matched at p: the end of the match
\* (exclusive), 0 if there is none
VavMatchEnd(t, p) ==
    LET b == p + 3
        d == IF b <= Len(t) /\ t[b] = "B" THEN b + 1 ELSE b
        h == DigitsEnd(t, d)
        e == DigitsEnd(t, h + 1) IN
    IF /\ p + 2 <= Len(t) /\ SubSeq(t, p, p + 2) = <<"V", "A", "V">>
       /\ h <= Len(t) /\ t[h] = "-"
       /\ e > h + 1
      THEN e ELSE 0

\* VAV_PATTERN.search(t).group(): the leftmost match, <<>> for no match
VavSearch(t) ==
    LET ps == {p \in 1..Len(t) : VavMatchEnd(t, p) > 0} IN
    IF ps = {} THEN <<>>
    ELSE LET p == CHOOSE q \in ps : \A r \in ps : q <= r IN
         SubSeq(t, p, VavMatchEnd(t, p) - 1)

\* where CFM_PATTERN = (\d{2,4})\s*(?:CFM|cfm)? first matches in t: the
\* leftmost run of two digits; 0 for no match
CfmMatchStart(t) ==
    LET ps == {p \in 1..(Len(t) - 1) : DigitsEnd(t, p) >= p + 2} IN
    IF ps = {} THEN 0 ELSE CHOOSE q \in ps : \A r \in ps : q <= r

\* int(CFM_PATTERN.search(t).group(1)): up to four digits of the run; -1
\* stands for no match
CfmSearch(t) ==
    LET p == CfmMatchStart(t)
        e == DigitsEnd(t, p) IN
    IF p = 0 THEN 0 - 1
    ELSE IntOfDigits(SubSeq(t, p, (IF e > p + 4 THEN p + 4 ELSE e) - 1))

\* the first pass on one span: the value under which it enters cfm_blocks,
\* -1 when it does not
CfmBlockValue(t) ==
    IF /\ t # <<>> /\ DigitsEnd(t, 1) = Len(t) + 1
       /\ 50 <= IntOfDigits(t) /\ IntOfDigits(t) <= 5000
      THEN IntOfDigits(t)
    ELSE IF Contains(ToUpper(t), <<"C", "F", "M">>) THEN CfmSearch(t)
    ELSE 0 - 1

\* _find_vav_with_context(page_index) for a page with these spans
PageVavs(spans) ==
    LET vavs == SelectSeq(spans, LAMBDA b : VavSearch(b.text) # <<>>)
        cands == SelectSeq(spans, LAMBDA b : CfmBlockValue(b.text) >= 0)
        blocks == [j \in 1..Len(cands) |->
                      [value |-> CfmBlockValue(cands[j].text),
                       x |-> cands[j].x, y |-> cands[j].y]] IN
    [i \in 1..Len(vavs) |->
        BuildVavData([tag |-> VavSearch(vavs[i].text), x |-> vavs[i].x,
                      y |-> vavs[i].y], blocks)]

RECURSIVE JoinLines(_, _)
\* sep.join(lines)
JoinLines(lines, sep) ==
    IF lines = <<>> THEN <<>>
    ELSE IF Len(lines) = 1 THEN lines[1]
    ELSE lines[1] \o sep \o JoinLines(Tail(lines), sep)

\* " ".join(lines[max(0, i-1):min(len(lines), i+2)]), lines counted from 1
Context(lines, i) ==
    JoinLines(SubSeq(lines, IF i > 1 THEN i - 1 ELSE 1,
                     IF i < Len(lines) THEN i + 1 ELSE Len(lines)), <<" ">>)

\* tag in dict
HasKey(dict, tag) == \E k \in 1..Len(dict) : dict[k].tag = tag

RECURSIVE ScanLines_lastWins(_, _, _)
\* (variant of ScanLines: a later line of a tag replaces its record)
ScanLines_lastWins(lines, i, sd) ==
    IF i > Len(lines) THEN sd
    ELSE LET tag == VavSearch(lines[i])
             c == CfmSearch(Context(lines, i)) IN
         ScanLines_lastWins(lines, i + 1,
                   IF tag # <<>> /\ c >= 0
                     THEN IF HasKey(sd, tag)
                            THEN [k \in 1..Len(sd) |->
                                    IF sd[k].tag = tag THEN ScheduleRecord(tag, c)
                                    ELSE sd[k]]
                            ELSE Append(sd, ScheduleRecord(tag, c))
                     ELSE sd)

RECURSIVE ScanLines(_, _, _)
\* for i, line in enumerate(lines): ... of _find_schedule_data
ScanLines(lines, i, sd) ==
    IF i > Len(lines) THEN sd
    ELSE LET tag == VavSearch(lines[i])
             c == CfmSearch(Context(lines, i)) IN
         ScanLines(lines, i + 1,
                   IF tag # <<>> /\ c >= 0 /\ ~HasKey(sd, tag)
                     THEN Append(sd, ScheduleRecord(tag, c)) ELSE sd)

RECURSIVE FindScheduleData(_, _, _)
\* _find_schedule_data: the pages in order, one dictionary for all of them
FindScheduleData(pages, p, sd) ==
    IF p > Len(pages) THEN sd
    ELSE LET lines == [i \in 1..Len(pages[p]) |-> pages[p][i].text]
             text == ToUpper(JoinLines(lines, <<"\n">>)) IN
         FindScheduleData(pages, p + 1,
            IF \/ Contains(text, <<"S", "C", "H", "E", "D", "U", "L", "E">>)
               \/ Contains(text, <<"V", "A", "V">>)
              THEN ScanLines(lines, 1, sd) ELSE sd)

\* (variant of KeepOrReplace: a record with CFM data replaces any record)
KeepOrReplace_anyWithCfm(old, vav) ==
    IF vav.total_cfm > 0 THEN vav ELSE old

\* elif vav.total_cfm > 0 and all_vavs[vav.tag].total_cfm == 0
KeepOrReplace(old, vav) ==
    IF vav.total_cfm > 0 /\ old.total_cfm = 0 THEN vav ELSE old

RECURSIVE MergePageVavs(_, _, _)
\* for vav in page_vavs: ... of extract_all
MergePageVavs(all, page_vavs, i) ==
    IF i > Len(page_vavs) THEN all
    ELSE LET vav == page_vavs[i] IN
         MergePageVavs(
            IF ~HasKey(all, vav.tag) THEN Append(all, vav)
            ELSE [k \in 1..Len(all) |->
                     IF all[k].tag = vav.tag THEN KeepOrReplace(all[k], vav)
                     ELSE all[k]],
            page_vavs, i + 1)

\* the spans of the pages: tags, numbers and a schedule row
SpanPool ==
    { [text |-> <<"V", "A", "V", "-", "1">>, x |-> 0, y |-> 0],
      [text |-> <<"V", "A", "V", "B", "5", "-", "0", "1">>, x |-> 0, y |-> 0],
      [text |-> <<"V", "A", "V", "-", "0", "0">>, x |-> 0, y |-> 0],
      [text |-> <<"4", "5", "0">>, x |-> 100, y |-> 0],
      [text |-> <<"8", "0", "0", " ", "c", "f", "m">>, x |-> 400, y |-> 0],
      [text |-> <<"0", "0">>, x |-> 0, y |-> 50],
      [text |-> <<"V", "A", "V", "-", "1", " ", "6", "0", "0">>, x |-> 0, y |-> 100] }

InitExtract ==
    /\ pc = "extract_all"
    /\ \E ss \in SeqsUpTo(SpanPool, MaxDocSpans) : \E k \in 0..Len(ss) :
          doc = <<SubSeq(ss, 1, k), SubSeq(ss, k + 1, Len(ss))>>
    /\ schedule_data = <<>> /\ all_vavs = <<>> /\ page_index = 0
    /\ mode = "full"
    /\ num_pages = 0 /\ page_num = 0
    /\ fragments = <<>>
    /\ all_data = EmptyData
    /\ mkey = 0 /\ mi = 0 /\ by_tag = <<>>
    /\ vi = 0 /\ existing_heater_tags = {}
    /\ heater_sheets = <<>> /\ stats = ZeroStats
    /\ resp_text = <<>> /\ parse_result = NoResult
    /\ error = NoError /\ vision_calls = 0
    /\ outputs = {} /\ populated = ZeroStats
    /\ api_key = TRUE /\ pdf_readable = TRUE
    /\ page_text = <<>> /\ labels = <<>> /\ prompt = ""
    /\ vav_block = NoVav /\ cfm_blocks = <<>> /\ vav_data = NoVavData
    /\ cfm_arg = 0 /\ inlet_size = ""
    /\ jobs = <<>> /\ task = <<>> /\ template_path = <<>> /\ exc = <<>>
    /\ status_data = NoAnswer

\* strategy 1: schedule_vavs = self._find_schedule_data() and its records
\* entered in all_vavs
FindSchedule ==
    /\ pc = "extract_all"
    /\ pc' = "floor_plans"
    /\ schedule_data' = FindScheduleData(doc, 1, <<>>)
    /\ all_vavs' = schedule_data'
    /\ UNCHANGED <<mode, num_pages, page_num, fragments, all_data, mergeVars,
                   deriveVars, genVars, adapterVars, runVars, envVars, classVars,
                   assocVars, inletVars, jobVars, doc, page_index>>

\* strategy 2, one page: page_vavs = self._find_vav_with_context(page_index)
\* and the loop over them
ExtractPageVavs ==
    /\ pc = "floor_plans"
    /\ page_index < Len(doc)
    /\ all_vavs' = MergePageVavs(all_vavs, PageVavs(doc[page_index + 1]), 1)
    /\ page_index' = page_index + 1
    /\ UNCHANGED <<pc, mode, num_pages, page_num, fragments, all_data, mergeVars,
                   deriveVars, genVars, adapterVars, runVars, envVars, classVars,
                   assocVars, inletVars, jobVars, doc, schedule_data>>

\* return list(all_vavs.values())
ReturnAll ==
    /\ pc = "floor_plans"
    /\ page_index = Len(doc)
    /\ pc' = "extracted"
    /\ UNCHANGED <<mode, num_pages, page_num, fragments, all_data, mergeVars,
                   deriveVars, genVars, adapterVars, runVars, envVars, classVars,
                   assocVars, inletVars, jobVars, extractVars>>

NextExtract ==
    \/ FindSchedule
    \/ ExtractPageVavs
    \/ ReturnAll

SpecExtract == InitExtract /\ [][NextExtract]_vars

(* ---------------------------------------------------------------------- *)
(* The job server: POST /extract, process_hvac_task, GET /status           *)
(* ---------------------------------------------------------------------- *)
\* jobs accepted by the server
MaxJobs == 1

\* jobs[job_id][key] = val
SetField(rec, key, val) ==
    [f \in DOMAIN rec \cup {key} |-> IF f = key THEN val ELSE rec[f]]

\* the assignments to the job record in process_hvac_task, by line: the key,
\* the value, and the line control goes to next
Assignments ==
    [s67 |-> [key |-> "status", val |-> "processing", next |-> "s80"],
     s80 |-> [key |-> "step", val |-> "extracting_data", next |-> "s82"],
     s91 |-> [key |-> "step", val |-> "populating_template", next |-> "s94"],
     s97 |-> [key |-> "populated_file", val |-> "populated.xlsx", next |-> "s100"],
     s100 |-> [key |-> "step", val |-> "generating_report", next |-> "s102"],
     s104 |-> [key |-> "status", val |-> "completed", next |-> "s105"],
     s105 |-> [key |-> "step", val |-> "done", next |-> "s106"],
     s106 |-> [key |-> "result_file", val |-> "hvac_report.xlsx", next |-> "s107"],
     s107 |-> [key |-> "data_file", val |-> "data.json", next |-> "end"],
     s111 |-> [key |-> "status", val |-> "failed", next |-> "s112"]]

\* the calls that can raise, by line: what is called, and the line control
\* goes to when the call returns
Calls ==
    [s82 |-> [what |-> "extract", next |-> "s86"],
     s86 |-> [what |-> "json.dump", next |-> "s90"],
     s94 |-> [what |-> "populate_all", next |-> "s97"],
     s102 |-> [what |-> "generate_excel", next |-> "s104"]]

\* (variant of ExceptTarget: the exception leaves the task)
ExceptTarget_unhandled(line) == "end"

\* where control goes when the call at line raises: except Exception as e
ExceptTarget(line) == "s111"

InitJobs ==
    /\ pc = "serving"
    /\ jobs = <<>> /\ task = <<>> /\ template_path = <<>> /\ exc = <<>>
    /\ status_data = NoAnswer
    /\ ExtractIdle
    /\ mode = "full"
    /\ num_pages = 0 /\ page_num = 0
    /\ fragments = <<>>
    /\ all_data = EmptyData
    /\ mkey = 0 /\ mi = 0 /\ by_tag = <<>>
    /\ vi = 0 /\ existing_heater_tags = {}
    /\ heater_sheets = <<>> /\ stats = ZeroStats
    /\ resp_text = <<>> /\ parse_result = NoResult
    /\ error = NoError /\ vision_calls = 0
    /\ outputs = {} /\ populated = ZeroStats
    /\ api_key = TRUE /\ pdf_readable = TRUE
    /\ page_text = <<>> /\ labels = <<>> /\ prompt = ""
    /\ vav_block = NoVav /\ cfm_blocks = <<>> /\ vav_data = NoVavData
    /\ cfm_arg = 0 /\ inlet_size = ""

\* POST /extract while fewer than limit jobs were accepted: the job is
\* recorded as queued and the task is scheduled
AcceptJob(limit) ==
    /\ pc = "serving"
    /\ Len(jobs) < limit
    /\ \E template \in BOOLEAN :
          template_path' = Append(template_path, template)
    /\ jobs' = Append(jobs, [id |-> Len(jobs) + 1, status |-> "queued",
                             filename |-> "drawings.pdf", timestamp |-> "hex"])
    /\ task' = Append(task, "s67")
    /\ exc' = Append(exc, "")
    /\ UNCHANGED <<pipelineVars, classVars, assocVars, inletVars, extractVars, status_data>>

ExtractHvac == AcceptJob(MaxJobs)

\* (variant of TaskAssign: the assignment reaches the record of every job)
TaskAssign_shared(job_id) ==
    /\ job_id \in DOMAIN task
    /\ task[job_id] \in DOMAIN Assignments
    /\ LET a == Assignments[task[job_id]] IN
       /\ jobs' = [k \in DOMAIN jobs |-> SetField(jobs[k], a.key, a.val)]
       /\ task' = [task EXCEPT ![job_id] = a.next]
    /\ UNCHANGED <<pipelineVars, classVars, assocVars, inletVars, extractVars, template_path,
                   exc, status_data>>

\* one assignment to the job record by the task of job_id
TaskAssign(job_id) ==
    /\ job_id \in DOMAIN task
    /\ task[job_id] \in DOMAIN Assignments
    /\ LET a == Assignments[task[job_id]] IN
       /\ jobs' = [jobs EXCEPT ![job_id] = SetField(@, a.key, a.val)]
       /\ task' = [task EXCEPT ![job_id] = a.next]
    /\ UNCHANGED <<pipelineVars, classVars, assocVars, inletVars, extractVars, template_path,
                   exc, status_data>>

\* one call of the task of job_id that returns or raises
TaskCall(job_id) ==
    /\ job_id \in DOMAIN task
    /\ task[job_id] \in DOMAIN Calls
    /\ \E raises \in BOOLEAN :
          IF raises
            THEN /\ exc' = [exc EXCEPT ![job_id] = Calls[task[job_id]].what]
                 /\ task' = [task EXCEPT ![job_id] = ExceptTarget(task[job_id])]
            ELSE /\ exc' = exc
                 /\ task' = [task EXCEPT ![job_id] = Calls[task[job_id]].next]
    /\ UNCHANGED <<pipelineVars, classVars, assocVars, inletVars, extractVars, jobs,
                   template_path, status_data>>

\* if template_path and Path(template_path).exists()
TaskBranch(job_id) ==
    /\ job_id \in DOMAIN task
    /\ task[job_id] = "s90"
    /\ task' = [task EXCEPT ![job_id] = IF template_path[job_id] THEN "s91"
                                        ELSE "s100"]
    /\ UNCHANGED <<pipelineVars, classVars, assocVars, inletVars, extractVars, jobs,
                   template_path, exc, status_data>>

\* jobs[job_id]["error"] = str(e)
TaskRecordError(job_id) ==
    /\ job_id \in DOMAIN task
    /\ task[job_id] = "s112"
    /\ jobs' = [jobs EXCEPT ![job_id] = SetField(@, "error", exc[job_id])]
    /\ task' = [task EXCEPT ![job_id] = "end"]
    /\ UNCHANGED <<pipelineVars, classVars, assocVars, inletVars, extractVars, template_path,
                   exc, status_data>>

\* one statement of process_hvac_task(job_id), which runs in a worker thread
TaskStep(job_id) ==
    \/ TaskAssign(job_id)
    \/ TaskCall(job_id)
    \/ TaskBranch(job_id)
    \/ TaskRecordError(job_id)

\* GET /status/{job_id}: the record as it is at that moment, or 404
GetStatus(job_id) ==
    /\ pc = "serving"
    /\ status_data' = IF job_id \in DOMAIN jobs
                        THEN [code |-> 200, job_id |-> job_id, body |-> jobs[job_id]]
                        ELSE [code |-> 404, job_id |-> job_id, body |-> <<>>]
    /\ UNCHANGED <<pipelineVars, classVars, assocVars, inletVars, extractVars, jobs, task,
                   template_path, exc>>

NextJobs ==
    \/ ExtractHvac
    \/ \E job_id \in 1..MaxJobs : TaskStep(job_id)
    \/ \E job_id \in 1..MaxJobs : GetStatus(job_id)

SpecJobs == InitJobs /\ [][NextJobs]_vars

\* several uploads: the tasks of the accepted jobs run side by side, each in
\* its worker thread
MaxTasks == 2

ExtractHvacAgain == AcceptJob(MaxTasks)

NextTasks ==
    \/ ExtractHvacAgain
    \/ \E job_id \in 1..MaxTasks : TaskStep(job_id)

SpecTasks == InitJobs /\ [][NextTasks]_vars

\* the worker thread of a scheduled task keeps running: every call of the
\* task returns or raises, and every other statement completes
SpecJobsFair ==
    /\ InitJobs /\ [][NextJobs]_vars
    /\ \A job_id \in 1..MaxJobs : WF_vars(TaskStep(job_id))

(* ---------------------------------------------------------------------- *)
(* Vocabulary of the properties                                            *)
(* ---------------------------------------------------------------------- *)
FieldNames ==
    {"tag", "location", "cfm_max", "has_reheat", "reheat_kw", "cfm", "voltage",
     "kw", "associated_vav"}

RECURSIVE ListedFrom(_, _)
\* the records of family fam the adapter returned from call i on, in call
\* order and, within a call, in listing order
ListedFrom(fam, i) ==
    IF i > Len(fragments) THEN <<>>
    ELSE (IF fragments[i].kind = "dict" /\ fam \in DOMAIN fragments[i].val
            THEN fragments[i].val[fam] ELSE <<>>) \o ListedFrom(fam, i + 1)

Listed(fam) == ListedFrom(fam, 1)

\* the listed records that carry tag t
WithTag(list, t) == SelectSeq(list, LAMBDA r : Get(r, "tag") = t)

HasTag(r) == Get(r, "tag") # None /\ Get(r, "tag") # Str("")

\* the non-empty tags listed for a family
ListedTags(fam) ==
    {Get(Listed(fam)[i], "tag") : i \in {j \in 1..Len(Listed(fam)) : HasTag(Listed(fam)[j])}}

RECURSIVE FirstNonNull(_, _)
\* the first non-null value of field f along a listing, None if there is none
FirstNonNull(list, f) ==
    IF list = <<>> THEN None
    ELSE IF Get(list[1], f) # None THEN list[1][f]
    ELSE FirstNonNull(Tail(list), f)

\* the merger has returned
Merged == pc \in {"deriving", "done", "generated"}

\* extract_from_pdf / extract_schedules_only has returned
Returned == pc \in {"done", "generated"}

(* ---------------------------------------------------------------------- *)
(* Properties                                                              *)
(* ---------------------------------------------------------------------- *)

\* C1: while a family is merged, a field of a running record that holds a
\* non-null value is never changed by a later record, and a field is written
\* only when the running value is null or absent and the value of the later
\* record with the same tag is non-null (the written value is that value).
C1_NonNullNeverOverwritten ==
    [][ (pc = "merging" /\ pc' = "merging" /\ mkey' = mkey) =>
          \A i \in 1..Len(by_tag) :
             /\ i <= Len(by_tag')
             /\ DOMAIN by_tag[i] \subseteq DOMAIN by_tag'[i]
             /\ \A f \in DOMAIN by_tag'[i] :
                  LET old == Get(by_tag[i], f)
                      item == all_data[Families[mkey]][mi] IN
                  /\ old # None => by_tag'[i][f] = old
                  /\ (f \notin DOMAIN by_tag[i] \/ by_tag'[i][f] # old) =>
                        /\ old = None
                        /\ Get(item, "tag") = by_tag[i]["tag"]
                        /\ Get(item, f) # None
                        /\ by_tag'[i][f] = item[f] ]_vars

\* C1 witness: a later record of the same tag, carrying a different non-null
\* value for a field the running record already holds, has been processed
C1_Witness ==
    /\ pc = "merging" /\ mi > 1
    /\ LET item == all_data[Families[mkey]][mi - 1] IN
       \E i \in 1..Len(by_tag) : \E f \in (DOMAIN item \cap DOMAIN by_tag[i]) :
          /\ by_tag[i]["tag"] = Get(item, "tag")
          /\ item[f] # None /\ by_tag[i][f] # None /\ item[f] # by_tag[i][f]

\* C2: after the merge, for every family and listed tag, each field of the
\* merged record is the first non-null value of that field among the records
\* of that tag, in page order and then listing order (null or absent when no
\* record has a non-null value); so the earlier of two conflicting records wins.
C2_FirstNonNullWins ==
    Merged =>
      \A fam \in FamilySet : \A t \in ListedTags(fam) :
         /\ \E i \in 1..Len(all_data[fam]) : Get(all_data[fam][i], "tag") = t
         /\ \A i \in 1..Len(all_data[fam]) :
               Get(all_data[fam][i], "tag") = t =>
                  \A f \in FieldNames :
                     Get(all_data[fam][i], f) = FirstNonNull(WithTag(Listed(fam), t), f)

\* C2 witness: two records of one tag disagree on a non-null field, come from
\* different pages, and the merged record holds the value of the earlier one
C2_Witness ==
    /\ pc = "done"
    /\ Len(fragments) = 2
    /\ fragments[1].kind = "dict" /\ fragments[2].kind = "dict"
    /\ "vavs" \in DOMAIN fragments[1].val /\ "vavs" \in DOMAIN fragments[2].val
    /\ \E a \in 1..Len(fragments[1].val["vavs"]), b \in 1..Len(fragments[2].val["vavs"]) :
          LET A == fragments[1].val["vavs"][a]
              B == fragments[2].val["vavs"][b] IN
          /\ HasTag(A) /\ Get(A, "tag") = Get(B, "tag")
          /\ Get(A, "cfm_max") # None /\ Get(B, "cfm_max") # None
          /\ Get(A, "cfm_max") # Get(B, "cfm_max")
          /\ \E i \in 1..Len(all_data["vavs"]) :
                /\ all_data["vavs"][i]["tag"] = A["tag"]
                /\ all_data["vavs"][i]["cfm_max"] = A["cfm_max"]

\* C3: in the returned dataset no two records of one family share a tag.
C3_TagsUnique ==
    Returned =>
      \A fam \in FamilySet : \A i, j \in 1..Len(all_data[fam]) :
         i # j => Get(all_data[fam][i], "tag") # Get(all_data[fam][j], "tag")

\* C3 witness: a tag was listed twice and a heater was synthesized
C3_Witness ==
    /\ pc = "done"
    /\ \E i, j \in 1..Len(Listed("vavs")) :
          i # j /\ HasTag(Listed("vavs")[i])
          /\ Get(Listed("vavs")[i], "tag") = Get(Listed("vavs")[j], "tag")
    /\ Len(all_data["heaters"]) > Len(Listed("heaters"))

\* C4: after the merge every record of every family carries a tag that is
\* neither missing nor null nor empty.
C4_NoTaglessRecord ==
    Merged => \A fam \in FamilySet : \A i \in 1..Len(all_data[fam]) : HasTag(all_data[fam][i])

\* C4 witness: a VAV with a null tag and a heater with an empty tag were
\* listed and the run has returned
C4_Witness ==
    /\ pc = "done"
    /\ \E r \in 1..Len(Listed("heaters")) : Get(Listed("heaters")[r], "tag") = Str("")
    /\ \E r \in 1..Len(Listed("vavs")) :
          "tag" \in DOMAIN Listed("vavs")[r] /\ Listed("vavs")[r]["tag"] = None

\* a reheat load that is neither null, nor zero, nor empty
NonZeroNonEmpty(v) == v # None /\ Truthy(v)

\* the tags of the heaters that were extracted directly
DirectHeaterTags == ListedTags("heaters")

\* C5 (as claimed): in the returned dataset every VAV whose has_reheat is true,
\* or whose reheat_kw is a non-zero, non-empty value, has a heater "<tag>-H"
\* in the heaters sequence.
C5_ReheatVavHasHeater ==
    Returned =>
      \A i \in 1..Len(all_data["vavs"]) :
         LET vav == all_data["vavs"][i] IN
         (Truthy(Get(vav, "has_reheat")) \/ NonZeroNonEmpty(Get(vav, "reheat_kw"))) =>
            \E h \in 1..Len(all_data["heaters"]) :
               Get(all_data["heaters"][h], "tag") = HeaterTag(vav)

\* C6: for every VAV T with reheat and no directly extracted heater "T-H", the
\* returned heaters hold exactly one record tagged "T-H"; it has the VAV's
\* location ("" when the VAV has none), cfm = the VAV's cfm_max (0 when it has
\* none), voltage 277, kw = the VAV's reheat_kw (0 when it has none) and
\* associated_vav = T, and no other field.
C6_SynthesizedHeaterShape ==
    Returned =>
      \A i \in 1..Len(all_data["vavs"]) :
         LET vav == all_data["vavs"][i]
             hs == {h \in 1..Len(all_data["heaters"]) :
                      Get(all_data["heaters"][h], "tag") = HeaterTag(vav)} IN
         (Truthy(Get(vav, "has_reheat")) /\ HeaterTag(vav) \notin DirectHeaterTags) =>
            /\ Cardinality(hs) = 1
            /\ \A h \in hs :
                  LET heater == all_data["heaters"][h] IN
                  /\ DOMAIN heater =
                       {"tag", "location", "cfm", "voltage", "kw", "associated_vav"}
                  /\ heater["location"] =
                       (IF "location" \in DOMAIN vav THEN vav["location"] ELSE Str(""))
                  /\ heater["cfm"] =
                       (IF "cfm_max" \in DOMAIN vav THEN vav["cfm_max"] ELSE Num("0"))
                  /\ heater["voltage"] = Num("277")
                  /\ heater["kw"] =
                       (IF "reheat_kw" \in DOMAIN vav THEN vav["reheat_kw"] ELSE Num("0"))
                  /\ heater["associated_vav"] = vav["tag"]

\* C6 witness: the VAV {tag V1, has_reheat true, reheat_kw 4.0, cfm_max 750}
\* with no direct heater gave the heater {V1-H, 277, 4.0, 750, V1}
C6_Witness ==
    /\ pc = "done"
    /\ Str("V1-H") \notin DirectHeaterTags
    /\ \E i \in 1..Len(all_data["vavs"]) :
          /\ all_data["vavs"][i]["tag"] = Str("V1")
          /\ Get(all_data["vavs"][i], "has_reheat") = PyTrue
          /\ Get(all_data["vavs"][i], "reheat_kw") = Num("4.0")
          /\ Get(all_data["vavs"][i], "cfm_max") = Num("750")
    /\ \E h \in 1..Len(all_data["heaters"]) :
          /\ all_data["heaters"][h]["tag"] = Str("V1-H")
          /\ Get(all_data["heaters"][h], "cfm") = Num("750")
          /\ Get(all_data["heaters"][h], "kw") = Num("4.0")

\* C7: when the heaters already hold a record tagged "T-H", the synthesis step
\* for VAV T changes nothing in the dataset (the record stays as it is and no
\* record is added); and the generator makes exactly one sheet for that tag,
\* from the extracted record.
C7_DirectExtractionWins ==
    [][ /\ (pc = "deriving" /\ vi <= Len(all_data["vavs"])) =>
             LET vav == all_data["vavs"][vi] IN
             (\E h \in 1..Len(all_data["heaters"]) :
                 Get(all_data["heaters"][h], "tag") = HeaterTag(vav))
             => all_data' = all_data
        /\ (pc = "done" /\ pc' = "generated") =>
             \A h \in 1..Len(all_data["heaters"]) :
                /\ Cardinality({j \in 1..Len(heater_sheets') :
                      Get(heater_sheets'[j], "tag") = Get(all_data["heaters"][h], "tag")}) = 1
                /\ \E j \in 1..Len(heater_sheets') :
                      heater_sheets'[j] = all_data["heaters"][h] ]_vars

\* C7 witness: synthesis has passed a VAV with reheat whose heater tag was
\* extracted directly, with a voltage other than the synthesized 277
C7_Witness ==
    /\ pc = "deriving" /\ vi > 1
    /\ LET vav == all_data["vavs"][vi - 1] IN
       /\ WantsHeater(vav)
       /\ HeaterTag(vav) \in DirectHeaterTags
       /\ \E h \in 1..Len(all_data["heaters"]) :
             /\ Get(all_data["heaters"][h], "tag") = HeaterTag(vav)
             /\ Get(all_data["heaters"][h], "voltage") = Num("480")

\* C8 (as claimed): in the returned dataset every heater with a non-empty
\* associated_vav names a tag of the vavs sequence, directly extracted heaters
\* included.
C8_AssociatedVavExists ==
    Returned =>
      \A h \in 1..Len(all_data["heaters"]) :
         LET a == Get(all_data["heaters"][h], "associated_vav") IN
         (a # None /\ a # Str("")) =>
            \E i \in 1..Len(all_data["vavs"]) : Get(all_data["vavs"][i], "tag") = a

\* every field of a blank placeholder is the empty string
IsBlankHeater(h) ==
    \A f \in {"location", "cfm", "voltage", "kw", "associated_vav"} : Get(h, f) = Str("")

\* ten blank records with pairwise distinct non-empty tags
TenBlankHeaters(list) ==
    /\ Len(list) = 10
    /\ \A j \in 1..Len(list) : IsBlankHeater(list[j]) /\ HasTag(list[j])
    /\ \A j, k \in 1..Len(list) : j # k => list[j]["tag"] # list[k]["tag"]

C10_AlwaysFragment ==
    pc = "adapter_done" =>
      /\ parse_result.kind = "dict"
      /\ ~JsonLoads(TrimToBraces(resp_text)).ok => parse_result.val = EmptyFragment

(* ---------------------------------------------------------------------- *)
(* Failures of a page and of the run                                       *)
(* ---------------------------------------------------------------------- *)
\* a result of the adapter that carries no record
NoRecords(d) ==
    \/ d.kind # "dict"
    \/ \A f \in FamilySet : f \notin DOMAIN d.val \/ d.val[f] = <<>>

\* the last result the adapter returned
LastFragment(frs) == frs[Len(frs)]

\* C11 (as claimed): whatever a vision call returns for a page (text that is
\* not JSON, JSON that is not the five-array object), the run goes on to the
\* next page with the dataset as it was, as for an empty fragment.
C11_BadPageNeverAborts ==
    [][ ( /\ pc = "extracting"
          /\ Len(fragments') = Len(fragments) + 1
          /\ NoRecords(LastFragment(fragments')) )
        => ( /\ pc' = "extracting"
             /\ page_num' = page_num + 1
             /\ all_data' = all_data ) ]_vars

\* C12 (as claimed): a vision call that fails instead of returning text is
\* treated like a parse failure: the page contributes nothing and the run
\* goes on to the next page.
C12_FailedCallIsEmptyPage ==
    [][ ( /\ pc = "extracting"
          /\ vision_calls' = vision_calls + 1
          /\ Len(fragments') = Len(fragments) )
        => ( /\ pc' = "extracting"
             /\ page_num' = page_num + 1
             /\ all_data' = all_data ) ]_vars

\* C13: with no API key, or with a PDF that cannot be opened, the run fails
\* before the page loop: no page is handled, no vision call is made, and no
\* dataset, JSON file, populated template or workbook is produced.
C13_PreflightFailsFast ==
    (~api_key \/ ~pdf_readable) =>
      /\ pc \in {"idle", "failed"}
      /\ pc = "failed" => error \in {"ValueError", "FileDataError"}
      /\ page_num = 0 /\ vision_calls = 0 /\ fragments = <<>>
      /\ outputs = {}
      /\ all_data = EmptyData /\ heater_sheets = <<>> /\ stats = ZeroStats

C13_Witness ==
    /\ pc = "failed" /\ error = "FileDataError"
    /\ api_key /\ ~pdf_readable

(* ---------------------------------------------------------------------- *)
(* Shape and ownership of the returned dataset                             *)
(* ---------------------------------------------------------------------- *)
\* C17: the dataset returned by extract_from_pdf and extract_schedules_only
\* has exactly the five family keys, each holding a sequence, whatever the
\* pages' fragments were (keys omitted, empty fragments).
C17_FiveKeysAlways ==
    Returned =>
      /\ DOMAIN all_data = FamilySet
      /\ \A f \in FamilySet : DOMAIN all_data[f] = 1..Len(all_data[f])

C17_Witness ==
    /\ Returned
    /\ \E i \in 1..Len(fragments) :
          fragments[i].kind = "dict" /\ DOMAIN fragments[i].val = {}
    /\ \E f \in FamilySet : all_data[f] # <<>>
    /\ \E f \in FamilySet : all_data[f] = <<>>

StandsAt(text, kw, off) ==
    /\ off + Len(kw) <= Len(text)
    /\ \A j \in 1..Len(kw) : UpperChar(text[off + j]) = kw[j]

\* the text holds one of the four keywords, letter case apart
HasKeyword(text) ==
    \E k \in 1..Len(schedule_indicators), off \in 0..Len(text) :
        StandsAt(text, schedule_indicators[k], off)

\* C14: a page is classified schedule exactly when its upper-cased text holds
\* SCHEDULE, DESIGNATION, CFM or AIRFLOW (never for the empty text), every
\* classification of the same text gives the same label, and the schedule
\* prompt is the one chosen exactly when the page is classified schedule.
C14_ClassifierRule ==
    \A i \in 1..Len(labels) :
        /\ labels[i] = HasKeyword(page_text)
        /\ page_text = <<>> => ~labels[i]
        /\ labels[i] = labels[1]
        /\ i = Len(labels) => (prompt = "SCHEDULE_PROMPT" <=> labels[i])

C14_Witness ==
    /\ page_text = <<"x", "a", "i", "r", "f", "l", "o", "w">>
    /\ labels = <<TRUE, TRUE>>
    /\ prompt = "SCHEDULE_PROMPT"

(* ---------------------------------------------------------------------- *)
(* ImprovedVAVExtractor                                                    *)
(* ---------------------------------------------------------------------- *)
\* the CFM block number i is at most 300 units away from the tag block
AtMostRadius(i) == Dist2(vav_block, cfm_blocks[i]) <= 300 * 300

\* C15 (as claimed): a CFM block is eligible exactly when its distance to the
\* tag is at most 300: the tag gets a CFM exactly when some block is at most
\* 300 away, the CFM it gets is that of such a block, and a sole block at a
\* distance up to and including 300 is associated.
C15_RadiusInclusive ==
    pc = "associated" =>
      /\ vav_data.total_cfm # 0 <=> \E i \in 1..Len(cfm_blocks) : AtMostRadius(i)
      /\ vav_data.total_cfm # 0 =>
            \E i \in 1..Len(cfm_blocks) :
                AtMostRadius(i) /\ cfm_blocks[i].value = vav_data.total_cfm
      /\ (Len(cfm_blocks) = 1 /\ AtMostRadius(1)) =>
            vav_data.total_cfm = cfm_blocks[1].value

\* C16: the inlet size follows from the CFM alone by the breakpoints: none up
\* to 0, 6" up to 200, 8" up to 400, 10" up to 700, 12" above.
C16_InletBreakpoints ==
    pc = "inlet_done" =>
      /\ cfm_arg <= 0 => inlet_size = ""
      /\ cfm_arg \in 1..200 => inlet_size = "6\""
      /\ cfm_arg \in 201..400 => inlet_size = "8\""
      /\ cfm_arg \in 401..700 => inlet_size = "10\""
      /\ cfm_arg > 700 => inlet_size = "12\""

C16_Witness ==
    /\ pc = "inlet_done"
    /\ cfm_arg = 701
    /\ inlet_size = "12\""

(* ---------------------------------------------------------------------- *)
(* The job server                                                          *)
(* ---------------------------------------------------------------------- *)
\* C19 (as claimed): an answer of GET /status that says "completed" carries
\* result_file and data_file, whenever the request is served.
C19_CompletedHasFiles ==
    (status_data.code = 200 /\ status_data.body.status = "completed") =>
        {"result_file", "data_file"} \subseteq DOMAIN status_data.body

\* the job is recorded and its status is final
Settled(job_id) ==
    /\ job_id \in DOMAIN jobs
    /\ jobs[job_id].status \in {"completed", "failed"}

\* C20: every accepted job eventually has status "completed" or "failed";
\* when a call of the task raised, the task ends with status "failed" and
\* the error recorded, and otherwise with status "completed".
C20_JobSettles ==
    \A job_id \in 1..MaxJobs :
        /\ (job_id \in DOMAIN jobs) ~> Settled(job_id)
        /\ [](job_id \in DOMAIN jobs /\ task[job_id] = "end" =>
                IF exc[job_id] # ""
                  THEN /\ jobs[job_id].status = "failed"
                       /\ "error" \in DOMAIN jobs[job_id]
                       /\ jobs[job_id].error = exc[job_id]
                  ELSE jobs[job_id].status = "completed")

C20_Witness ==
    /\ Len(jobs) >= 1
    /\ task[1] = "end" /\ exc[1] = "populate_all"
    /\ jobs[1].status = "failed"
    /\ status_data.code = 200 /\ status_data.body.status = "processing"

(* ---------------------------------------------------------------------- *)
(* The order of a run of extract_from_pdf                                  *)
(* ---------------------------------------------------------------------- *)
\* the run has returned or raised
Finished == pc \in {"done", "failed", "generated"}

\* C21: a run goes Idle -> Extracting(0) -> ... -> Extracting(N-1) -> Merging
\* -> Deriving -> Done: the page index goes up by one per page, merging
\* starts only when every page 0..N-1 has produced a fragment, derivation
\* starts only when the merger has finished its last key, and after Done or
\* Failed nothing of the run changes any more.
C21_RunOrder ==
    [][ /\ pc = "idle" =>
            /\ pc' \in {"extracting", "failed"}
            /\ pc' = "extracting" => page_num' = 0 /\ fragments' = <<>>
        /\ pc = "extracting" =>
            /\ pc' \in {"extracting", "merging", "failed"}
            /\ pc' = "extracting" =>
                 /\ page_num < num_pages
                 /\ page_num' = page_num + 1
                 /\ mode = "full" => Len(fragments') = page_num'
            /\ pc' = "merging" =>
                 /\ page_num = num_pages
                 /\ mode = "full" => Len(fragments) = num_pages
                 /\ UNCHANGED <<page_num, fragments, all_data>>
            /\ pc' = "failed" => page_num' = page_num
        /\ pc = "merging" =>
            /\ pc' \in {"merging", "deriving", "failed"}
            /\ UNCHANGED <<page_num, fragments>>
            /\ pc' = "deriving" =>
                 /\ mkey = Len(Families)
                 /\ mi > Len(all_data[Families[mkey]])
        /\ pc = "deriving" =>
            /\ pc' \in {"deriving", "done", "failed"}
            /\ UNCHANGED <<page_num, fragments, mergeVars>>
        /\ Finished =>
            /\ Finished'
            /\ UNCHANGED <<num_pages, page_num, fragments, all_data, mergeVars,
                           deriveVars, error, vision_calls>> ]_vars

C21_Witness ==
    /\ pc = "done" /\ mode = "full"
    /\ num_pages >= 2 /\ page_num = num_pages /\ Len(fragments) = num_pages
    /\ \E f \in FamilySet : all_data[f] # <<>>

(* ---------------------------------------------------------------------- *)
(* The tags the merger keeps                                               *)
(* ---------------------------------------------------------------------- *)
\* the tags of a sequence of records, in order
TagsOf(list) == [i \in 1..Len(list) |-> Get(list[i], "tag")]

RECURSIVE FirstSightings(_, _)
\* the distinct non-empty tags of a listing, each at its first sighting
FirstSightings(list, seen) ==
    IF list = <<>> THEN <<>>
    ELSE IF ~HasTag(list[1]) \/ Get(list[1], "tag") \in seen
      THEN FirstSightings(Tail(list), seen)
    ELSE <<Get(list[1], "tag")>>
           \o FirstSightings(Tail(list), seen \cup {Get(list[1], "tag")})

\* the merger has just returned: no VAV has been looked at for a heater yet
JustMerged == pc = "deriving" /\ vi = 1

\* C27: the merge neither loses nor reorders tags: for every family the tags
\* of the merged sequence are the distinct non-empty tags of the page
\* fragments in the order of their first sighting (page order, then listing
\* order); what derivation adds later comes after them, in the heaters only.
C27_MergeKeepsTagsInOrder ==
    Merged =>
      \A fam \in FamilySet :
        LET want == FirstSightings(Listed(fam), {})
            got == TagsOf(all_data[fam]) IN
        /\ Len(want) <= Len(got)
        /\ SubSeq(got, 1, Len(want)) = want
        /\ (JustMerged \/ fam # "heaters") => got = want

\* C27 witness: two pages listed VAVs, a tag was listed twice with another
\* tag between the two sightings, and a tagless record was listed
C27_Witness ==
    /\ JustMerged
    /\ Len(fragments) >= 2
    /\ \E fam \in FamilySet :
         /\ Len(all_data[fam]) >= 2
         /\ \E i, j, k \in 1..Len(Listed(fam)) :
              /\ i < j /\ j < k
              /\ HasTag(Listed(fam)[i]) /\ HasTag(Listed(fam)[j])
              /\ Get(Listed(fam)[i], "tag") = Get(Listed(fam)[k], "tag")
              /\ Get(Listed(fam)[i], "tag") # Get(Listed(fam)[j], "tag")

\* C22 (as claimed): merging and derivation have no failure path: whatever
\* fragments the adapter returned, a run that has entered the merger goes on
\* through the derivation to Done and never raises.
C22_MergeNeverRaises ==
    [][ (pc \in {"merging", "deriving"}) =>
          (pc' \in {"merging", "deriving", "done"}) ]_vars

(* ---------------------------------------------------------------------- *)
(* The geometric associator's choice                                       *)
(* ---------------------------------------------------------------------- *)
\* the CFM blocks that are not beyond the radius
Eligible == {i \in 1..Len(cfm_blocks) : AtMostRadius(i)}

\* C23 (as claimed): the tag gets as total_cfm and max_cfm the value of the
\* candidate of minimum distance among those within the radius of 300; with
\* no candidate within the radius total_cfm, max_cfm and min_cfm stay 0 and
\* inlet_size stays empty.
C23_NearestEligible ==
    pc = "associated" =>
      /\ Eligible = {} =>
           /\ vav_data.total_cfm = 0 /\ vav_data.max_cfm = 0
           /\ vav_data.min_cfm = 0 /\ vav_data.inlet_size = ""
      /\ Eligible # {} =>
           \E i \in Eligible :
              /\ \A j \in Eligible :
                    Dist2(vav_block, cfm_blocks[i]) <= Dist2(vav_block, cfm_blocks[j])
              /\ vav_data.total_cfm = cfm_blocks[i].value
              /\ vav_data.max_cfm = cfm_blocks[i].value

(* ---------------------------------------------------------------------- *)
(* The minimum-CFM estimate                                                *)
(* ---------------------------------------------------------------------- *)
\* C24: a record built from a found CFM value c, by the geometric
\* associator or by the schedule scanner, has total_cfm = max_cfm = c and
\* min_cfm = floor(c / 5), for every c of 0..9999.
C24_MinCfmIsFifth ==
    pc \in {"cfm_associated", "cfm_scheduled"} =>
      /\ vav_data.total_cfm = cfm_arg /\ vav_data.max_cfm = cfm_arg
      /\ vav_data.min_cfm = cfm_arg \div 5
      /\ 5 * vav_data.min_cfm <= cfm_arg /\ cfm_arg < 5 * vav_data.min_cfm + 5

\* C24 witness: a value that is no multiple of 5 and whose product with the
\* double 0.2 is not exact, from the schedule scanner
C24_Witness ==
    /\ pc = "cfm_scheduled"
    /\ cfm_arg = 9999 /\ vav_data.min_cfm = 1999

(* ---------------------------------------------------------------------- *)
(* The schedule scanner and extract_all                                    *)
(* ---------------------------------------------------------------------- *)
\* the lines of page p
PageLines(p) == [i \in 1..Len(doc[p]) |-> doc[p][i].text]

\* the lines of page p that hold the tag and whose window holds a CFM match
MatchingLines(p, tag) ==
    {i \in 1..Len(doc[p]) :
        /\ VavSearch(PageLines(p)[i]) = tag
        /\ CfmSearch(Context(PageLines(p), i)) >= 0}

\* the record a dictionary holds for the tag
RecordOf(dict, tag) == dict[CHOOSE k \in 1..Len(dict) : dict[k].tag = tag]

\* the tags found on the lines of the document
DocTags ==
    UNION {{VavSearch(doc[p][i].text) : i \in 1..Len(doc[p])} : p \in 1..Len(doc)}
      \ {<<>>}

\* _find_schedule_data has just returned its dictionary
Scanned == pc = "floor_plans" /\ page_index = 0

\* the record built from the first matching line of page p for the tag
FirstLineRecord(p, tag) ==
    LET first == CHOOSE i \in MatchingLines(p, tag) :
                    \A j \in MatchingLines(p, tag) : i <= j IN
    ScheduleRecord(tag, CfmSearch(Context(PageLines(p), first)))

\* C25 (as claimed): on every page the first occurrence of a tag wins: the
\* record the scanner holds for a tag found on the page is the one built
\* from the first line of that page whose three-line window holds a CFM
\* match.
C25_FirstLineOfPageWins ==
    Scanned =>
      \A p \in 1..Len(doc) : \A tag \in DocTags :
         MatchingLines(p, tag) # {} =>
           /\ HasKey(schedule_data, tag)
           /\ RecordOf(schedule_data, tag) = FirstLineRecord(p, tag)

\* C25 (amended): the first occurrence of a tag in the document wins: the
\* record the scanner holds for a tag is the one built from the first line,
\* in page order and then line order, whose three-line window, clipped at
\* the bounds of its page, holds a CFM match; later occurrences on that page
\* or on later pages do not change it, and a tag with no such line has no
\* record.
C25_FirstInDocumentWins ==
    Scanned =>
      \A tag \in DocTags :
        /\ HasKey(schedule_data, tag) <=>
              \E p \in 1..Len(doc) : MatchingLines(p, tag) # {}
        /\ \A p \in 1..Len(doc) :
              ( /\ MatchingLines(p, tag) # {}
                /\ \A q \in 1..(p - 1) : MatchingLines(q, tag) = {} )
              => RecordOf(schedule_data, tag) = FirstLineRecord(p, tag)

\* C25 witness: a tag stands on two lines of one page whose windows give
\* different CFM values, and the record is the one of the first
C25_Witness ==
    /\ Scanned
    /\ \E p \in 1..Len(doc) : \E tag \in DocTags :
          \E i, j \in MatchingLines(p, tag) :
             /\ i < j
             /\ CfmSearch(Context(PageLines(p), i)) # CfmSearch(Context(PageLines(p), j))
             /\ RecordOf(schedule_data, tag).total_cfm
                   = CfmSearch(Context(PageLines(p), i))

\* the tags of a dictionary are pairwise different and are the tags found
\* in the document
OnePerTag(dict) ==
    /\ \A i, j \in 1..Len(dict) : i # j => dict[i].tag # dict[j].tag
    /\ {dict[k].tag : k \in 1..Len(dict)} = DocTags

\* what a step may do to the records: a record stays, or a record without
\* CFM data gives way to one with CFM data for the same tag
ReplaceOnlyWithoutCfm ==
    /\ Len(all_vavs') >= Len(all_vavs)
    /\ \A k \in 1..Len(all_vavs) :
          \/ all_vavs'[k] = all_vavs[k]
          \/ /\ all_vavs[k].total_cfm = 0 /\ all_vavs'[k].total_cfm > 0
             /\ all_vavs'[k].tag = all_vavs[k].tag

\* C26 (as claimed): extract_all returns one record per distinct tag, a tag
\* recorded by the schedule scan keeps its schedule record, and a record is
\* replaced by a floor-plan record only when its total_cfm is 0 and the new
\* record's is greater than 0.
C26_ScheduleRecordKept ==
    [][ /\ pc = "floor_plans" => ReplaceOnlyWithoutCfm
        /\ pc' = "extracted" =>
             /\ OnePerTag(all_vavs')
             /\ \A k \in 1..Len(schedule_data) :
                   RecordOf(all_vavs', schedule_data[k].tag) = schedule_data[k] ]_vars

\* C26 (amended): as claimed, except that a schedule record keeps its place
\* only if its total_cfm is greater than 0: a schedule record whose
\* total_cfm is 0 is replaced like any other record without CFM data.
C26_RecordWithCfmKept ==
    [][ /\ pc = "floor_plans" => ReplaceOnlyWithoutCfm
        /\ pc' = "extracted" =>
             /\ OnePerTag(all_vavs')
             /\ \A k \in 1..Len(schedule_data) :
                   \/ RecordOf(all_vavs', schedule_data[k].tag) = schedule_data[k]
                   \/ /\ schedule_data[k].total_cfm = 0
                      /\ RecordOf(all_vavs', schedule_data[k].tag).total_cfm > 0 ]_vars

\* C26 witness: extract_all has returned; a schedule record with CFM data
\* was kept, and a schedule record without CFM data was replaced by the
\* floor-plan record of its tag
C26_Witness ==
    /\ pc = "extracted"
    /\ \E k \in 1..Len(schedule_data) :
          /\ schedule_data[k].total_cfm > 0
          /\ RecordOf(all_vavs, schedule_data[k].tag) = schedule_data[k]
    /\ \E k \in 1..Len(schedule_data) :
          /\ schedule_data[k].total_cfm = 0
          /\ RecordOf(all_vavs, schedule_data[k].tag).total_cfm > 0
          /\ RecordOf(all_vavs, schedule_data[k].tag).inlet_size # ""

\* C28 (as claimed): in every record extract_all returns, inlet_size is the
\* breakpoint lookup of the record's total_cfm, whichever strategy produced
\* the record.
C28_InletSizeConsistent ==
    pc = "extracted" =>
      \A k \in 1..Len(all_vavs) :
         all_vavs[k].inlet_size = EstimateInletSize(all_vavs[k].total_cfm)

\* the token of the line that VAV_PATTERN matched, with its place
TagSpanOf(line) ==
    LET ps == {p \in 1..Len(line) : VavMatchEnd(line, p) > 0}
        p == CHOOSE q \in ps : \A r \in ps : q <= r IN
    [from |-> p, to |-> VavMatchEnd(line, p) - 1]

\* the window of line i starts with the line before it, if there is one
OffsetInContext(p, i) ==
    IF i > 1 THEN Len(PageLines(p)[i - 1]) + 1 ELSE 0

\* C29 (as claimed): the CFM value the scanner records for a tag never comes
\* from the digits of the tag token itself: the digits matched in the
\* window of the recording line lie outside the tag token of that line.
C29_CfmNotFromTagDigits ==
    Scanned =>
      \A p \in 1..Len(doc) : \A tag \in DocTags :
         ( /\ MatchingLines(p, tag) # {}
           /\ \A q \in 1..(p - 1) : MatchingLines(q, tag) = {} ) =>
         LET i == CHOOSE i \in MatchingLines(p, tag) :
                     \A j \in MatchingLines(p, tag) : i <= j
             at == CfmMatchStart(Context(PageLines(p), i))
             span == TagSpanOf(PageLines(p)[i]) IN
         \/ at < OffsetInContext(p, i) + span.from
         \/ at > OffsetInContext(p, i) + span.to

(* ---------------------------------------------------------------------- *)
(* The life of a job record                                                *)
(* ---------------------------------------------------------------------- *)
\* the moves of a job's status
StatusMoves ==
    { <<"queued", "processing">>, <<"processing", "completed">>,
      <<"processing", "failed">> }

\* C30: a job's status only moves forward, queued -> processing -> completed
\* or failed; completed and failed are absorbing, whatever step any task
\* takes; a record once made stays, a new record starts queued, and a step
\* of the task of one job leaves the record of every other job as it is.
C30_StatusMovesForward ==
    [][ /\ \A k \in DOMAIN jobs :
           /\ k \in DOMAIN jobs'
           /\ \/ jobs'[k].status = jobs[k].status
              \/ <<jobs[k].status, jobs'[k].status>> \in StatusMoves
           /\ jobs[k].status \in {"completed", "failed"} =>
                 jobs'[k].status = jobs[k].status
           /\ \A j \in DOMAIN task :
                 (j # k /\ task'[j] # task[j]) => jobs'[k] = jobs[k]
        /\ \A k \in DOMAIN jobs' \ DOMAIN jobs : jobs'[k].status = "queued" ]_vars

\* C30 witness: two jobs ran side by side; one is completed and at its end,
\* the other failed and is at its end
C30_Witness ==
    /\ Len(jobs) >= 2
    /\ \E j, k \in DOMAIN jobs :
          /\ jobs[j].status = "completed" /\ task[j] = "end"
          /\ jobs[k].status = "failed" /\ task[k] = "end"
          /\ "error" \in DOMAIN jobs[k]

====
